---- MODULE Spec2Model ----
(***************************************************************************)
(* Design System Studio: the design-token model, the palette generator,    *)
(* the five exporters and the component builder, as state machines.        *)
(*                                                                         *)
(* Texts are modelled as TLC strings built by concatenation exactly where  *)
(* the source interpolates a template literal; a multi-line text is the    *)
(* sequence of its lines.  A JavaScript object is an insertion-ordered     *)
(* sequence of entries [k |-> key, v |-> value]; in every object built     *)
(* here integer-like keys are written in ascending order, so insertion     *)
(* order and Object.entries order coincide.                                *)
(***************************************************************************)
EXTENDS Integers, Sequences, FiniteSets, TLC

VARIABLES
    pc,                  \* position of the pure-function harness: "call" | "done" | "idle"
    args,                \* inputs of the function applied by the harness
    result,              \* value the function returned
    designSystem,        \* DesignSystemGenerator's useState record
    exportFormat,        \* ExportModal's useState tab id
    content,             \* text shown for the current export format
    selectedComponent,   \* ComponentGenerator's useState config
    generatedComponents  \* ComponentGenerator's list of generated configs

vars == <<pc, args, result, designSystem, exportFormat, content,
          selectedComponent, generatedComponents>>

----------------------------------------------------------------------------
(* Program constants and bounds *)

\* Math.floor(Math.random() * 360): hues are the integers 0..HueRange-1
HueRange == 360
\* saturation is a percentage; the high steps are capped at it
MaxSaturation == 100
\* Math.floor(Math.random() * 1000): name suffixes are 0..NameRange-1
NameRange == 1000

\* highest index of fontFamilies a draw or a selection may pick in the stateful models
MaxFontIdx == 1

----------------------------------------------------------------------------
(* JavaScript objects as insertion-ordered entry sequences *)

Entry(key, value) == [k |-> key, v |-> value]

Keys(obj) == [i \in 1..Len(obj) |-> obj[i].k]

KeySet(obj) == {obj[i].k : i \in 1..Len(obj)}

Has(obj, key) == \E i \in 1..Len(obj) : obj[i].k = key

\* obj[key]; a missing key reads as "undefined"
Get(obj, key) ==
    IF Has(obj, key)
    THEN obj[CHOOSE i \in 1..Len(obj) : obj[i].k = key /\ \A j \in 1..(i-1) : obj[j].k # key].v
    ELSE "undefined"

\* { ...obj, [key]: value }: an existing key keeps its place, a new one is appended
Put(obj, key, value) ==
    IF Has(obj, key)
    THEN [i \in 1..Len(obj) |-> IF obj[i].k = key THEN Entry(key, value) ELSE obj[i]]
    ELSE Append(obj, Entry(key, value))

Max(a, b) == IF a >= b THEN a ELSE b
Min(a, b) == IF a <= b THEN a ELSE b

----------------------------------------------------------------------------
(* Palette generator *)

\* `hsl(${h}, ${s}%, ${l}%)`
Hsl(h, s, l) == "hsl(" \o ToString(h) \o ", " \o ToString(s) \o "%, " \o ToString(l) \o "%)"

\* slip: step 600 written with the lightness of step 500
generateColorShade_lightnessSlip(baseHue, saturation) ==
    << Entry("50",  Hsl(baseHue, Max(saturation - 40, 10), 95)),
       Entry("100", Hsl(baseHue, Max(saturation - 30, 15), 90)),
       Entry("200", Hsl(baseHue, Max(saturation - 20, 20), 80)),
       Entry("300", Hsl(baseHue, Max(saturation - 10, 25), 70)),
       Entry("400", Hsl(baseHue, saturation, 60)),
       Entry("500", Hsl(baseHue, saturation, 50)),
       Entry("600", Hsl(baseHue, saturation, 50)),
       Entry("700", Hsl(baseHue, Min(saturation + 10, 100), 30)),
       Entry("800", Hsl(baseHue, Min(saturation + 20, 100), 20)),
       Entry("900", Hsl(baseHue, Min(saturation + 30, 100), 10)) >>

\* slip: step 300 clamped with the floor of step 200
generateColorShade_floorSlip(baseHue, saturation) ==
    << Entry("50",  Hsl(baseHue, Max(saturation - 40, 10), 95)),
       Entry("100", Hsl(baseHue, Max(saturation - 30, 15), 90)),
       Entry("200", Hsl(baseHue, Max(saturation - 20, 20), 80)),
       Entry("300", Hsl(baseHue, Max(saturation - 10, 20), 70)),
       Entry("400", Hsl(baseHue, saturation, 60)),
       Entry("500", Hsl(baseHue, saturation, 50)),
       Entry("600", Hsl(baseHue, saturation, 40)),
       Entry("700", Hsl(baseHue, Min(saturation + 10, 100), 30)),
       Entry("800", Hsl(baseHue, Min(saturation + 20, 100), 20)),
       Entry("900", Hsl(baseHue, Min(saturation + 30, 100), 10)) >>

generateColorShade(baseHue, saturation) ==
    << Entry("50",  Hsl(baseHue, Max(saturation - 40, 10), 95)),
       Entry("100", Hsl(baseHue, Max(saturation - 30, 15), 90)),
       Entry("200", Hsl(baseHue, Max(saturation - 20, 20), 80)),
       Entry("300", Hsl(baseHue, Max(saturation - 10, 25), 70)),
       Entry("400", Hsl(baseHue, saturation, 60)),
       Entry("500", Hsl(baseHue, saturation, 50)),
       Entry("600", Hsl(baseHue, saturation, 40)),
       Entry("700", Hsl(baseHue, Min(saturation + 10, 100), 30)),
       Entry("800", Hsl(baseHue, Min(saturation + 20, 100), 20)),
       Entry("900", Hsl(baseHue, Min(saturation + 30, 100), 10)) >>

\* slip: the derived hues are not reduced modulo 360
generateRandomPalette_noWrap(primaryHue) ==
    LET secondaryHue == primaryHue + 180
        accentHue    == primaryHue + 120
    IN << Entry("primary",   generateColorShade(primaryHue, 70)),
          Entry("secondary", generateColorShade(secondaryHue, 60)),
          Entry("accent",    generateColorShade(accentHue, 80)),
          Entry("neutral",   generateColorShade(0, 5)),
          Entry("success",   generateColorShade(120, 60)),
          Entry("warning",   generateColorShade(45, 80)),
          Entry("error",     generateColorShade(0, 70)) >>

\* primaryHue is the value of Math.floor(Math.random() * 360)
generateRandomPalette(primaryHue) ==
    LET secondaryHue == (primaryHue + 180) % 360
        accentHue    == (primaryHue + 120) % 360
    IN << Entry("primary",   generateColorShade(primaryHue, 70)),
          Entry("secondary", generateColorShade(secondaryHue, 60)),
          Entry("accent",    generateColorShade(accentHue, 80)),
          Entry("neutral",   generateColorShade(0, 5)),
          Entry("success",   generateColorShade(120, 60)),
          Entry("warning",   generateColorShade(45, 80)),
          Entry("error",     generateColorShade(0, 70)) >>

----------------------------------------------------------------------------
(* Idle values of the parts a specification does not exercise *)

NoValue == << >>

IdleHarness == pc = "idle" /\ args = NoValue /\ result = NoValue

IdleDesignSystem == designSystem = NoValue /\ exportFormat = "figma" /\ content = NoValue

IdleBuilder == selectedComponent = NoValue /\ generatedComponents = NoValue

----------------------------------------------------------------------------
(* SpecShade: generateColorShade applied to every hue and saturation *)

InitShade ==
    /\ pc = "call"
    /\ args \in [baseHue : 0..(HueRange - 1), saturation : 0..MaxSaturation]
    /\ result = NoValue
    /\ IdleDesignSystem
    /\ IdleBuilder

CallGenerateColorShade ==
    /\ pc = "call"
    /\ result' = generateColorShade(args.baseHue, args.saturation)
    /\ pc' = "done"
    /\ UNCHANGED <<args, designSystem, exportFormat, content,
                   selectedComponent, generatedComponents>>

NextShade == CallGenerateColorShade

SpecShade == InitShade /\ [][NextShade]_vars

----------------------------------------------------------------------------
(* Reading a colour text back: the three numbers of "hsl(H, S%, L%)" *)

CharAt(str, i) == SubSeq(str, i, i)

IsDigit(c) == c \in {"0", "1", "2", "3", "4", "5", "6", "7", "8", "9"}

DigitValue(c) == CHOOSE d \in 0..9 : CharAt("0123456789", d + 1) = c

RECURSIVE ReadNat(_, _, _)
\* the decimal number starting at position i: its value and the position after it
ReadNat(str, i, acc) ==
    IF i <= Len(str) /\ IsDigit(CharAt(str, i))
    THEN ReadNat(str, i + 1, acc * 10 + DigitValue(CharAt(str, i)))
    ELSE [val |-> acc, next |-> i]

\* ok iff str is exactly hsl(<digits>, <digits>%, <digits>%)
ParseHsl(str) ==
    LET h == ReadNat(str, 5, 0)
        s == ReadNat(str, h.next + 2, 0)
        l == ReadNat(str, s.next + 3, 0)
    IN [ok |-> /\ Len(str) >= 4 /\ SubSeq(str, 1, 4) = "hsl("
               /\ h.next > 5
               /\ SubSeq(str, h.next, h.next + 1) = ", "
               /\ s.next > h.next + 2
               /\ SubSeq(str, s.next, s.next + 2) = "%, "
               /\ l.next > s.next + 3
               /\ SubSeq(str, l.next, Len(str)) = "%)",
        h |-> h.val, s |-> s.val, l |-> l.val]

StepKeys == <<"50", "100", "200", "300", "400", "500", "600", "700", "800", "900">>

LightnessRamp == <<95, 90, 80, 70, 60, 50, 40, 30, 20, 10>>

\* C1: for every hue in [0,360) and saturation in [0,100], generateColorShade
\* returns exactly the ten keys 50..900 in ascending order, every entry is a
\* colour text with the hue passed in, and the lightness values in key order
\* are 95,90,80,70,60,50,40,30,20,10.
C1_ShadeKeysHueLightness ==
    pc = "done" =>
        /\ Keys(result) = StepKeys
        /\ \A i \in 1..Len(result) :
              LET c == ParseHsl(result[i].v)
              IN c.ok /\ c.h = args.baseHue /\ c.l = LightnessRamp[i]

C1_Witness ==
    /\ pc = "done"
    /\ args.baseHue = 359
    /\ args.saturation = 100
    /\ Len(result) = 10
    /\ result[1].v = "hsl(359, 60%, 95%)"

\* the saturation the contract gives each step, by position in key order
ContractSaturation(s, i) ==
    CASE i = 1 -> IF s - 40 < 10 THEN 10 ELSE s - 40
      [] i = 2 -> IF s - 30 < 15 THEN 15 ELSE s - 30
      [] i = 3 -> IF s - 20 < 20 THEN 20 ELSE s - 20
      [] i = 4 -> IF s - 10 < 25 THEN 25 ELSE s - 10
      [] i \in {5, 6, 7} -> s
      [] i = 8 -> IF s + 10 > 100 THEN 100 ELSE s + 10
      [] i = 9 -> IF s + 20 > 100 THEN 100 ELSE s + 20
      [] i = 10 -> IF s + 30 > 100 THEN 100 ELSE s + 30

\* C2: the saturation of each step is the clamped value of the contract
\* (50: max(s-40,10), 100: max(s-30,15), 200: max(s-20,20), 300: max(s-10,25),
\* 400/500/600: s, 700: min(s+10,100), 800: min(s+20,100), 900: min(s+30,100));
\* steps 50-300 stay in [10,100] and steps 700-900 in [0,100].
C2_ShadeSaturation ==
    pc = "done" =>
        /\ Len(result) = 10
        /\ \A i \in 1..Len(result) :
              LET c == ParseHsl(result[i].v)
              IN /\ c.ok
                 /\ c.s = ContractSaturation(args.saturation, i)
                 /\ i \in 1..4 => c.s >= 10 /\ c.s <= 100
                 /\ i \in 8..10 => c.s >= 0 /\ c.s <= 100

\* a saturation where the floor of step 300 and no ceiling is in force
C2_Witness ==
    /\ pc = "done"
    /\ args.saturation = 30
    /\ ParseHsl(result[4].v).s = 25
    /\ ParseHsl(result[1].v).s = 10
    /\ ParseHsl(result[10].v).s = 60

----------------------------------------------------------------------------
(* SpecPalette: generateRandomPalette for every primary hue it can draw *)

InitPalette ==
    /\ pc = "call"
    /\ args = NoValue
    /\ result = NoValue
    /\ IdleDesignSystem
    /\ IdleBuilder

CallGenerateRandomPalette ==
    /\ pc = "call"
    /\ \E primaryHue \in 0..(HueRange - 1) :
          /\ args' = [primaryHue |-> primaryHue]
          /\ result' = generateRandomPalette(primaryHue)
    /\ pc' = "done"
    /\ UNCHANGED <<designSystem, exportFormat, content,
                   selectedComponent, generatedComponents>>

NextPalette == CallGenerateRandomPalette

SpecPalette == InitPalette /\ [][NextPalette]_vars

RoleNames == <<"primary", "secondary", "accent", "neutral", "success", "warning", "error">>

\* every entry of a shade is a colour text of hue h whose unclamped steps
\* (400, 500, 600) carry saturation s
ShadeOf(shade, h, s) ==
    /\ Keys(shade) = StepKeys
    /\ \A i \in 1..Len(shade) :
          LET c == ParseHsl(shade[i].v)
          IN c.ok /\ c.h = h /\ c.l = LightnessRamp[i]
                  /\ c.s = ContractSaturation(s, i)

\* C3: generateRandomPalette returns exactly the seven roles; primary is the
\* shade of the drawn hue p at saturation 70, secondary that of p+180 (mod 360)
\* at 60, accent that of p+120 (mod 360) at 80; neutral, success, warning and
\* error are the shades of (0,5), (120,60), (45,80), (0,70) whatever p is; and
\* every derived hue stays in [0,360).
C3_PaletteRoles ==
    pc = "done" =>
        LET p == args.primaryHue
            secondary == IF p + 180 >= 360 THEN p + 180 - 360 ELSE p + 180
            accent    == IF p + 120 >= 360 THEN p + 120 - 360 ELSE p + 120
        IN /\ Keys(result) = RoleNames
           /\ ShadeOf(Get(result, "primary"), p, 70)
           /\ ShadeOf(Get(result, "secondary"), secondary, 60)
           /\ ShadeOf(Get(result, "accent"), accent, 80)
           /\ ShadeOf(Get(result, "neutral"), 0, 5)
           /\ ShadeOf(Get(result, "success"), 120, 60)
           /\ ShadeOf(Get(result, "warning"), 45, 80)
           /\ ShadeOf(Get(result, "error"), 0, 70)
           /\ \A r \in 1..Len(result) : \A i \in 1..Len(result[r].v) :
                 ParseHsl(result[r].v[i].v).h \in 0..359

\* a draw whose secondary and accent hues both wrap around 360
C3_Witness ==
    /\ pc = "done"
    /\ args.primaryHue = 300
    /\ Get(Get(result, "secondary"), "500") = "hsl(120, 60%, 50%)"
    /\ Get(Get(result, "accent"), "500") = "hsl(60, 80%, 50%)"

----------------------------------------------------------------------------
(* Design system: the record held by DesignSystemGenerator and its handlers *)

TypographyEntry(size, lineHeight, weight) ==
    << Entry("size", size), Entry("lineHeight", lineHeight), Entry("weight", weight) >>

defaultTypography ==
    << Entry("xs",   TypographyEntry("0.75rem", "1rem", "400")),
       Entry("sm",   TypographyEntry("0.875rem", "1.25rem", "400")),
       Entry("base", TypographyEntry("1rem", "1.5rem", "400")),
       Entry("lg",   TypographyEntry("1.125rem", "1.75rem", "400")),
       Entry("xl",   TypographyEntry("1.25rem", "1.75rem", "500")),
       Entry("2xl",  TypographyEntry("1.5rem", "2rem", "500")),
       Entry("3xl",  TypographyEntry("1.875rem", "2.25rem", "600")),
       Entry("4xl",  TypographyEntry("2.25rem", "2.5rem", "600")),
       Entry("5xl",  TypographyEntry("3rem", "1", "700")) >>

fontFamilies ==
    << "Inter, sans-serif",
       "Roboto, sans-serif",
       "Open Sans, sans-serif",
       "Lato, sans-serif",
       "Poppins, sans-serif",
       "Montserrat, sans-serif",
       "Source Sans Pro, sans-serif",
       "Nunito, sans-serif",
       "Playfair Display, serif",
       "Merriweather, serif" >>

\* the hues a draw of Math.floor(Math.random() * 360) returns in the stateful
\* models: both ends of 0..359 (359 makes the secondary and accent hues wrap)
DrawnHues == {0, HueRange - 1}

\* the values a draw of Math.floor(Math.random() * 1000) returns: both ends
DrawnSuffixes == {0, NameRange - 1}

\* the values a draw of Math.floor(Math.random() * fontFamilies.length) returns
DrawnFontIdx == {i \in 0..(Len(fontFamilies) - 1) : i <= MaxFontIdx}

\* the texts typed into the name field
TypedNames == {"", "Acme"}

\* the state useState is given at mount; primaryHue is generateRandomPalette's draw
initialDesignSystem(primaryHue) ==
    [ name         |-> "My Design System",
      colors       |-> generateRandomPalette(primaryHue),
      typography   |-> defaultTypography,
      spacing      |-> <<"4px", "8px", "12px", "16px", "20px", "24px", "32px", "40px", "48px", "64px">>,
      borderRadius |-> <<"0px", "4px", "8px", "12px", "16px", "24px">>,
      fontFamily   |-> fontFamilies[0 + 1] ]

\* slip: the spacing literal of generateRandomSystem lacks the 20px entry
randomDesignSystem_spacingSlip(suffix, fontIdx, primaryHue) ==
    LET randomName == "Design System " \o ToString(suffix)
        randomFont == fontFamilies[fontIdx + 1]
    IN [ name         |-> randomName,
         colors       |-> generateRandomPalette(primaryHue),
         typography   |-> defaultTypography,
         spacing      |-> <<"4px", "8px", "12px", "16px", "24px", "32px", "40px", "48px", "64px">>,
         borderRadius |-> <<"0px", "4px", "8px", "12px", "16px", "24px">>,
         fontFamily   |-> randomFont ]

\* slip: the font index is rounded up instead of down; reading past the end
\* of the list gives undefined
randomDesignSystem_fontCeil(suffix, fontIdx, primaryHue) ==
    LET randomName == "Design System " \o ToString(suffix)
        randomFont == IF fontIdx + 1 < Len(fontFamilies) THEN fontFamilies[fontIdx + 1 + 1]
                      ELSE "undefined"
    IN [ name         |-> randomName,
         colors       |-> generateRandomPalette(primaryHue),
         typography   |-> defaultTypography,
         spacing      |-> <<"4px", "8px", "12px", "16px", "20px", "24px", "32px", "40px", "48px", "64px">>,
         borderRadius |-> <<"0px", "4px", "8px", "12px", "16px", "24px">>,
         fontFamily   |-> randomFont ]

\* slip: the name suffix is rounded up instead of down
randomDesignSystem_suffixCeil(suffix, fontIdx, primaryHue) ==
    LET randomName == "Design System " \o ToString(suffix + 1)
        randomFont == fontFamilies[fontIdx + 1]
    IN [ name         |-> randomName,
         colors       |-> generateRandomPalette(primaryHue),
         typography   |-> defaultTypography,
         spacing      |-> <<"4px", "8px", "12px", "16px", "20px", "24px", "32px", "40px", "48px", "64px">>,
         borderRadius |-> <<"0px", "4px", "8px", "12px", "16px", "24px">>,
         fontFamily   |-> randomFont ]

\* the record generateRandomSystem passes to setDesignSystem
randomDesignSystem(suffix, fontIdx, primaryHue) ==
    LET randomName == "Design System " \o ToString(suffix)
        randomFont == fontFamilies[fontIdx + 1]
    IN [ name         |-> randomName,
         colors       |-> generateRandomPalette(primaryHue),
         typography   |-> defaultTypography,
         spacing      |-> <<"4px", "8px", "12px", "16px", "20px", "24px", "32px", "40px", "48px", "64px">>,
         borderRadius |-> <<"0px", "4px", "8px", "12px", "16px", "24px">>,
         fontFamily   |-> randomFont ]

\* prev => ({ ...prev, name: value })
withName(prev, value) == [prev EXCEPT !.name = value]

\* the record of the first render is spread instead of prev
withFontFamily_staleState(prev, value) ==
    [initialDesignSystem(0) EXCEPT !.fontFamily = value]

\* prev => ({ ...prev, fontFamily: value })
withFontFamily(prev, value) == [prev EXCEPT !.fontFamily = value]

\* prev => ({ ...prev, colors: generateRandomPalette() })
withShuffledPalette(prev, primaryHue) ==
    [prev EXCEPT !.colors = generateRandomPalette(primaryHue)]

\* slip: the new shades are written under a fixed key instead of [colorName]
withShuffledRole_fixedKey(prev, colorName, baseHue) ==
    LET newShades == generateColorShade(baseHue, 70)
    IN [prev EXCEPT !.colors = Put(prev.colors, "colorName", newShades)]

\* slip: prev.colors is not spread, the other roles are lost
withShuffledRole_dropsOtherRoles(prev, colorName, baseHue) ==
    LET newShades == generateColorShade(baseHue, 70)
    IN [prev EXCEPT !.colors = Put(<< >>, colorName, newShades)]

\* prev => ({ ...prev, colors: { ...prev.colors, [colorName]: newShades } })
withShuffledRole(prev, colorName, baseHue) ==
    LET newShades == generateColorShade(baseHue, 70)
    IN [prev EXCEPT !.colors = Put(prev.colors, colorName, newShades)]

InitDesignSystem ==
    /\ IdleHarness
    /\ IdleBuilder
    /\ \E primaryHue \in DrawnHues : designSystem = initialDesignSystem(primaryHue)
    /\ exportFormat = "figma"
    /\ content = NoValue

GenerateRandomSystem ==
    /\ \E suffix \in DrawnSuffixes, fontIdx \in DrawnFontIdx, primaryHue \in DrawnHues :
          designSystem' = randomDesignSystem(suffix, fontIdx, primaryHue)
    /\ UNCHANGED <<pc, args, result, exportFormat, content,
                   selectedComponent, generatedComponents>>

NameEdit ==
    /\ \E value \in TypedNames : designSystem' = withName(designSystem, value)
    /\ UNCHANGED <<pc, args, result, exportFormat, content,
                   selectedComponent, generatedComponents>>

\* the select offers every entry of fontFamilies
FontSelect ==
    /\ \E i \in DrawnFontIdx : designSystem' = withFontFamily(designSystem, fontFamilies[i + 1])
    /\ UNCHANGED <<pc, args, result, exportFormat, content,
                   selectedComponent, generatedComponents>>

\* one shuffle button per entry of designSystem.colors
RoleShuffle ==
    /\ \E r \in 1..Len(designSystem.colors), baseHue \in DrawnHues :
          designSystem' = withShuffledRole(designSystem, designSystem.colors[r].k, baseHue)
    /\ UNCHANGED <<pc, args, result, exportFormat, content,
                   selectedComponent, generatedComponents>>

PaletteShuffle ==
    /\ \E primaryHue \in DrawnHues :
          designSystem' = withShuffledPalette(designSystem, primaryHue)
    /\ UNCHANGED <<pc, args, result, exportFormat, content,
                   selectedComponent, generatedComponents>>

Next ==
    \/ GenerateRandomSystem
    \/ NameEdit
    \/ FontSelect
    \/ RoleShuffle
    \/ PaletteShuffle

Spec == InitDesignSystem /\ [][Next]_vars

SizeKeys == <<"xs", "sm", "base", "lg", "xl", "2xl", "3xl", "4xl", "5xl">>

Defined(v) == v # "undefined"

\* C4: in every state reachable by generate-random-system, name edit, font
\* select, role-shuffle and palette-shuffle the DesignSystem is fully
\* populated: colors has exactly the seven roles, each with all ten step keys
\* defined; typography has all nine size keys, each with size, lineHeight and
\* weight; spacing, borderRadius, name and fontFamily are defined.
C4_FullyPopulated ==
    /\ DOMAIN designSystem = {"name", "colors", "typography", "spacing", "borderRadius", "fontFamily"}
    /\ Len(designSystem.colors) = 7
    /\ KeySet(designSystem.colors) = {RoleNames[i] : i \in 1..7}
    /\ \A r \in 1..7 :
          LET shades == Get(designSystem.colors, RoleNames[r])
          IN /\ Defined(shades)
             /\ Len(shades) = 10
             /\ \A i \in 1..10 : /\ Defined(Get(shades, StepKeys[i]))
                                 /\ ParseHsl(Get(shades, StepKeys[i])).ok
    /\ Len(designSystem.typography) = 9
    /\ \A t \in 1..9 :
          LET props == Get(designSystem.typography, SizeKeys[t])
          IN /\ Defined(props)
             /\ Defined(Get(props, "size"))
             /\ Defined(Get(props, "lineHeight"))
             /\ Defined(Get(props, "weight"))
    /\ Len(designSystem.spacing) > 0
    /\ \A i \in 1..Len(designSystem.spacing) : Defined(designSystem.spacing[i])
    /\ Len(designSystem.borderRadius) > 0
    /\ \A i \in 1..Len(designSystem.borderRadius) : Defined(designSystem.borderRadius[i])
    /\ Defined(designSystem.name)
    /\ Defined(designSystem.fontFamily)

\* a state after a role-shuffle of neutral, a name edit and a font selection
C4_Witness ==
    /\ designSystem.name = "Acme"
    /\ designSystem.fontFamily = fontFamilies[2]
    /\ ParseHsl(Get(Get(designSystem.colors, "neutral"), "500")).s = 70
    /\ ParseHsl(Get(Get(designSystem.colors, "secondary"), "500")).s = 60

----------------------------------------------------------------------------
(* Component builder: the configuration being edited and the generated list *)

MaxGenerated == 1

componentTypes == <<"button", "card", "input", "badge", "alert">>

componentTemplates ==
    [ button |-> [ variants    |-> <<"primary", "secondary", "outline", "destructive">>,
                   sizes       |-> <<"sm", "md", "lg">>,
                   defaultText |-> "Click me",
                   props       |-> <<"disabled", "loading">> ],
      card   |-> [ variants    |-> <<"default", "outlined">>,
                   sizes       |-> <<"sm", "md", "lg">>,
                   defaultText |-> "Card Title",
                   props       |-> <<"shadow", "hover">> ],
      input  |-> [ variants    |-> <<"default", "filled">>,
                   sizes       |-> <<"sm", "md", "lg">>,
                   defaultText |-> "Enter text...",
                   props       |-> <<"disabled", "error">> ],
      badge  |-> [ variants    |-> <<"default", "secondary", "destructive", "outline">>,
                   sizes       |-> <<"sm", "md", "lg">>,
                   defaultText |-> "Badge",
                   props       |-> <<"rounded">> ],
      alert  |-> [ variants    |-> <<"default", "destructive", "warning", "success">>,
                   sizes       |-> <<"md">>,
                   defaultText |-> "This is an alert message",
                   props       |-> <<"dismissible">> ] ]

\* the texts typed into the text field
TypedTexts == {"Save"}

initialSelectedComponent ==
    [ type    |-> "button",
      variant |-> "primary",
      size    |-> "md",
      text    |-> "Click me",
      props   |-> << >> ]

\* prev => ({ ...prev, [field]: value })
updateComponent(prev, field, value) == [prev EXCEPT ![field] = value]

\* prev => ({ ...prev, props: { ...prev.props, [propName]: value } })
updateProp(prev, propName, value) == [prev EXCEPT !.props = Put(prev.props, propName, value)]

\* the props of the previous type are carried over
typeChange_keepProps(prev, type) ==
    LET template == componentTemplates[type]
        u1 == updateComponent(prev, "type", type)
        u2 == updateComponent(u1, "variant", template.variants[0 + 1])
        u3 == updateComponent(u2, "size", template.sizes[0 + 1])
    IN updateComponent(u3, "text", template.defaultText)

\* the variant of the previous type is carried over
typeChange_keepVariant(prev, type) ==
    LET template == componentTemplates[type]
        u1 == updateComponent(prev, "type", type)
        u2 == updateComponent(u1, "size", template.sizes[0 + 1])
        u3 == updateComponent(u2, "text", template.defaultText)
    IN updateComponent(u3, "props", << >>)

\* every update spreads the configuration of the render instead of prev
typeChange_lastWriteWins(prev, type) ==
    updateComponent(prev, "props", << >>)

\* the size of the previous type is carried over
typeChange_keepSize(prev, type) ==
    LET template == componentTemplates[type]
        u1 == updateComponent(prev, "type", type)
        u2 == updateComponent(u1, "variant", template.variants[0 + 1])
        u3 == updateComponent(u2, "text", template.defaultText)
    IN updateComponent(u3, "props", << >>)

\* the type select's onChange: five updaters queued, applied in order
typeChange(prev, type) ==
    LET template == componentTemplates[type]
        u1 == updateComponent(prev, "type", type)
        u2 == updateComponent(u1, "variant", template.variants[0 + 1])
        u3 == updateComponent(u2, "size", template.sizes[0 + 1])
        u4 == updateComponent(u3, "text", template.defaultText)
    IN updateComponent(u4, "props", << >>)

\* selectedComponent.props[prop] || false
Checked(component, prop) ==
    IF Has(component.props, prop) THEN Get(component.props, prop) ELSE FALSE

InitBuilder ==
    /\ IdleHarness
    /\ IdleDesignSystem
    /\ selectedComponent = initialSelectedComponent
    /\ generatedComponents = << >>

BuilderFrame == UNCHANGED <<pc, args, result, designSystem, exportFormat, content>>

TypeChangeTo(type) ==
    /\ selectedComponent' = typeChange(selectedComponent, type)
    /\ UNCHANGED generatedComponents
    /\ BuilderFrame

TypeChange == \E t \in 1..Len(componentTypes) : TypeChangeTo(componentTypes[t])

\* the options offered are the variants of the selected type
VariantChange ==
    /\ \E i \in 1..Len(componentTemplates[selectedComponent.type].variants) :
          selectedComponent' =
              updateComponent(selectedComponent, "variant",
                              componentTemplates[selectedComponent.type].variants[i])
    /\ UNCHANGED generatedComponents
    /\ BuilderFrame

\* the options offered are the sizes of the selected type
SizeChange ==
    /\ \E i \in 1..Len(componentTemplates[selectedComponent.type].sizes) :
          selectedComponent' =
              updateComponent(selectedComponent, "size",
                              componentTemplates[selectedComponent.type].sizes[i])
    /\ UNCHANGED generatedComponents
    /\ BuilderFrame

TextChange ==
    /\ \E value \in TypedTexts :
          selectedComponent' = updateComponent(selectedComponent, "text", value)
    /\ UNCHANGED generatedComponents
    /\ BuilderFrame

\* one switch per prop of the selected type; a click reports the opposite of what it shows
PropToggle ==
    /\ \E i \in 1..Len(componentTemplates[selectedComponent.type].props) :
          LET prop == componentTemplates[selectedComponent.type].props[i]
          IN selectedComponent' =
                 updateProp(selectedComponent, prop, ~Checked(selectedComponent, prop))
    /\ UNCHANGED generatedComponents
    /\ BuilderFrame

\* the new entry is put in front of the list
withGenerated_prepend(prev, newComponent) == << newComponent >> \o prev

\* prev => [...prev, newComponent]
withGenerated(prev, newComponent) == Append(prev, newComponent)

\* generateComponent: newComponent = { ...selectedComponent }
GenerateComponent ==
    /\ Len(generatedComponents) < MaxGenerated
    /\ generatedComponents' = withGenerated(generatedComponents, selectedComponent)
    /\ UNCHANGED selectedComponent
    /\ BuilderFrame

NextBuilder ==
    \/ TypeChange
    \/ VariantChange
    \/ SizeChange
    \/ TextChange
    \/ PropToggle
    \/ GenerateComponent

SpecBuilder == InitBuilder /\ [][NextBuilder]_vars

Range(seq) == {seq[i] : i \in 1..Len(seq)}

\* C5: in every reachable state of the component builder the selected variant
\* is one of the variants of the selected type's template and the selected
\* size is one of its sizes.
C5_VariantAndSizeOffered ==
    /\ selectedComponent.type \in Range(componentTypes)
    /\ selectedComponent.variant \in Range(componentTemplates[selectedComponent.type].variants)
    /\ selectedComponent.size \in Range(componentTemplates[selectedComponent.type].sizes)

\* an alert, reached by a type switch from a button whose size was sm, with
\* another variant selected afterwards
C5_Witness ==
    /\ Len(generatedComponents) = 1
    /\ generatedComponents[1].type = "button"
    /\ generatedComponents[1].size = "sm"
    /\ selectedComponent.type = "alert"
    /\ selectedComponent.variant = "warning"
    /\ selectedComponent.size = "md"

\* C6: a type switch to t leaves, once its five queued updates have been
\* applied in order, the configuration with type t, the first variant of t,
\* the first size of t, the default text of t and no props.
C6_TypeSwitchResets ==
    [][\A t \in 1..Len(componentTypes) :
          TypeChangeTo(componentTypes[t]) =>
              selectedComponent' =
                  [ type    |-> componentTypes[t],
                    variant |-> Head(componentTemplates[componentTypes[t]].variants),
                    size    |-> Head(componentTemplates[componentTypes[t]].sizes),
                    text    |-> componentTemplates[componentTypes[t]].defaultText,
                    props   |-> << >> ]]_vars

\* a badge right after the switch from a customised button that was generated
C6_Witness ==
    /\ generatedComponents =
          << [ type |-> "button", variant |-> "outline", size |-> "lg", text |-> "Save",
               props |-> << Entry("disabled", TRUE) >> ] >>
    /\ selectedComponent =
          [ type |-> "badge", variant |-> "default", size |-> "sm", text |-> "Badge",
            props |-> << >> ]

----------------------------------------------------------------------------
(* Exporters: each returns its text as the sequence of its lines *)

RECURSIVE ConcatRange(_, _, _)
\* seqs[lo] \o ... \o seqs[hi], split in halves to keep the evaluation shallow
ConcatRange(seqs, lo, hi) ==
    IF lo > hi THEN << >>
    ELSE IF lo = hi THEN seqs[lo]
    ELSE LET mid == (lo + hi) \div 2
         IN ConcatRange(seqs, lo, mid) \o ConcatRange(seqs, mid + 1, hi)

\* the entries of a sequence of sequences, in order (nested forEach loops)
ConcatAll(seqs) == ConcatRange(seqs, 1, Len(seqs))

\* obj after obj[k] = v for each entry of assignments, in order: a key stands
\* where it was first written and holds what was last written to it
AssignAll(obj, assignments) ==
    LET writes  == obj \o assignments
        indexed == [i \in 1..Len(writes) |-> [i |-> i, k |-> writes[i].k]]
        IsFirst(w) == \A j \in 1..(w.i - 1) : writes[j].k # w.k
        firsts  == SelectSeq(indexed, IsFirst)
        Last(key) == CHOOSE j \in 1..Len(writes) :
                        /\ writes[j].k = key
                        /\ \A m \in (j + 1)..Len(writes) : writes[m].k # key
    IN [n \in 1..Len(firsts) |-> Entry(firsts[n].k, writes[Last(firsts[n].k)].v)]

\* JSON values: a string, an object (ordered entries) or an array (items)
JStr(str) == [t |-> "string", s |-> str]
JObj(entries) == [t |-> "object", e |-> entries]
JArr(items) == [t |-> "array", e |-> [i \in 1..Len(items) |-> Entry("", items[i])]]

RECURSIVE Indent(_)
Indent(depth) == IF depth = 0 THEN "" ELSE "  " \o Indent(depth - 1)

\* no text of a design system holds a quote or a backslash, so quoting adds
\* only the enclosing quotes
Quote(str) == "\"" \o str \o "\""

RECURSIVE JsonLines(_, _, _, _)
\* JSON.stringify(value, null, 2): the lines of value at nesting depth, the
\* first after lead (its indentation and key), the last before trail (its comma)
JsonLines(value, depth, lead, trail) ==
    IF value.t = "string" THEN << lead \o Quote(value.s) \o trail >>
    ELSE LET open  == IF value.t = "object" THEN "{" ELSE "["
             close == IF value.t = "object" THEN "}" ELSE "]"
             n     == Len(value.e)
             Key(i) == IF value.t = "object" THEN Quote(value.e[i].k) \o ": " ELSE ""
             Sep(i) == IF i < n THEN "," ELSE ""
         IN IF n = 0 THEN << lead \o open \o close \o trail >>
            ELSE << lead \o open >>
                 \o ConcatAll([i \in 1..n |->
                        JsonLines(value.e[i].v, depth + 1, Indent(depth + 1) \o Key(i), Sep(i))])
                 \o << Indent(depth) \o close \o trail >>

JsonStringify(value) == JsonLines(value, 0, "", "")

\* generateFigmaVariables, the Colors loop
figmaColorVars(ds) ==
    ConcatAll([r \in 1..Len(ds.colors) |->
        LET colorName == ds.colors[r].k
            shades    == ds.colors[r].v
        IN [i \in 1..Len(shades) |->
               Entry("color/" \o colorName \o "/" \o shades[i].k, JStr(shades[i].v))]])

\* slip: the weight is written under the lineHeight key
figmaTypographyVars_keySlip(ds) ==
    ConcatAll([t \in 1..Len(ds.typography) |->
        LET size  == ds.typography[t].k
            props == ds.typography[t].v
        IN << Entry("typography/" \o size \o "/size", JStr(Get(props, "size"))),
              Entry("typography/" \o size \o "/lineHeight", JStr(Get(props, "lineHeight"))),
              Entry("typography/" \o size \o "/lineHeight", JStr(Get(props, "weight"))) >>])

\* generateFigmaVariables, the Typography loop
figmaTypographyVars(ds) ==
    ConcatAll([t \in 1..Len(ds.typography) |->
        LET size  == ds.typography[t].k
            props == ds.typography[t].v
        IN << Entry("typography/" \o size \o "/size", JStr(Get(props, "size"))),
              Entry("typography/" \o size \o "/lineHeight", JStr(Get(props, "lineHeight"))),
              Entry("typography/" \o size \o "/weight", JStr(Get(props, "weight"))) >>])

\* generateFigmaVariables, the Spacing loop (index is the 0-based array index)
figmaSpacingVars(ds) ==
    [i \in 1..Len(ds.spacing) |->
        LET index == i - 1
        IN Entry("spacing/" \o ToString(index + 1), JStr(ds.spacing[i]))]

\* generateFigmaVariables, the Border Radius loop
figmaRadiusVars(ds) ==
    [i \in 1..Len(ds.borderRadius) |->
        LET index == i - 1
        IN Entry("radius/" \o ToString(index), JStr(ds.borderRadius[i]))]

\* the variables object generateFigmaVariables fills before it is serialized
figmaVariablesObject(ds) ==
    AssignAll(<< >>, figmaColorVars(ds) \o figmaTypographyVars(ds)
                     \o figmaSpacingVars(ds) \o figmaRadiusVars(ds)
                     \o << Entry("font/family", JStr(ds.fontFamily)) >>)

generateFigmaVariables(ds) == JsonStringify(JObj(figmaVariablesObject(ds)))

\* generateCSS, the Colors loop
cssColorLines(ds) ==
    ConcatAll([r \in 1..Len(ds.colors) |->
        LET colorName == ds.colors[r].k
            shades    == ds.colors[r].v
        IN [i \in 1..Len(shades) |->
               "  --" \o colorName \o "-" \o shades[i].k \o ": " \o shades[i].v \o ";"]])

\* generateCSS, the Typography loop
cssTypographyLines(ds) ==
    ConcatAll([t \in 1..Len(ds.typography) |->
        LET size  == ds.typography[t].k
            props == ds.typography[t].v
        IN << "  --text-" \o size \o ": " \o Get(props, "size") \o ";",
              "  --leading-" \o size \o ": " \o Get(props, "lineHeight") \o ";",
              "  --weight-" \o size \o ": " \o Get(props, "weight") \o ";" >>])

\* generateCSS, the Spacing loop
cssSpacingLines(ds) ==
    [i \in 1..Len(ds.spacing) |->
        LET index == i - 1
        IN "  --spacing-" \o ToString(index + 1) \o ": " \o ds.spacing[i] \o ";"]

\* slip: the radius keys numbered like the spacing keys
cssRadiusLines_oneBased(ds) ==
    [i \in 1..Len(ds.borderRadius) |->
        LET index == i - 1
        IN "  --radius-" \o ToString(index + 1) \o ": " \o ds.borderRadius[i] \o ";"]

\* generateCSS, the Border Radius loop
cssRadiusLines(ds) ==
    [i \in 1..Len(ds.borderRadius) |->
        LET index == i - 1
        IN "  --radius-" \o ToString(index) \o ": " \o ds.borderRadius[i] \o ";"]

\* slip: the font family declared before the scales
generateCSS_fontBeforeScales(ds) ==
    << ":root {" >> \o cssColorLines(ds) \o cssTypographyLines(ds)
       \o << "  --font-family: " \o ds.fontFamily \o ";" >>
       \o cssSpacingLines(ds) \o cssRadiusLines(ds)
       \o << "}" >>

generateCSS(ds) ==
    << ":root {" >> \o cssColorLines(ds) \o cssTypographyLines(ds)
       \o cssSpacingLines(ds) \o cssRadiusLines(ds)
       \o << "  --font-family: " \o ds.fontFamily \o ";" >>
       \o << "}" >>

\* an object of the design system as a JSON value: its leaves are strings
ShadeJson(shades) == JObj([i \in 1..Len(shades) |-> Entry(shades[i].k, JStr(shades[i].v))])

TypographyJson(typography) ==
    JObj([t \in 1..Len(typography) |-> Entry(typography[t].k, ShadeJson(typography[t].v))])

\* the config object generateTailwindConfig serializes
tailwindConfigObject(ds) ==
    LET colors ==
            AssignAll(<< >>, [r \in 1..Len(ds.colors) |->
                Entry(ds.colors[r].k,
                      JObj(AssignAll(<< >>, [i \in 1..Len(ds.colors[r].v) |->
                          Entry(ds.colors[r].v[i].k, JStr(ds.colors[r].v[i].v))])))])
        spacing ==
            AssignAll(<< >>, [i \in 1..Len(ds.spacing) |->
                LET index == i - 1 IN Entry(ToString(index + 1), JStr(ds.spacing[i]))])
        borderRadius ==
            AssignAll(<< >>, [i \in 1..Len(ds.borderRadius) |->
                LET index == i - 1 IN Entry(ToString(index), JStr(ds.borderRadius[i]))])
    IN << Entry("theme", JObj(<<
            Entry("extend", JObj(<<
                Entry("colors", JObj(colors)),
                Entry("fontFamily", JObj(<< Entry("sans", JArr(<< JStr(ds.fontFamily) >>)) >>)),
                Entry("fontSize", TypographyJson(ds.typography)),
                Entry("spacing", JObj(spacing)),
                Entry("borderRadius", JObj(borderRadius)) >>)) >>)) >>

generateTailwindConfig(ds) == JsonStringify(JObj(tailwindConfigObject(ds)))

\* generateSCSSVariables, the Colors loop
scssColorLines(ds) ==
    ConcatAll([r \in 1..Len(ds.colors) |->
        LET colorName == ds.colors[r].k
            shades    == ds.colors[r].v
        IN [i \in 1..Len(shades) |->
               "$" \o colorName \o "-" \o shades[i].k \o ": " \o shades[i].v \o ";"]])

\* slip: the line-height variable is given the weight
scssTypographyLines_weightAsLineHeight(ds) ==
    ConcatAll([t \in 1..Len(ds.typography) |->
        LET size  == ds.typography[t].k
            props == ds.typography[t].v
        IN << "$font-size-" \o size \o ": " \o Get(props, "size") \o ";",
              "$line-height-" \o size \o ": " \o Get(props, "weight") \o ";",
              "$font-weight-" \o size \o ": " \o Get(props, "weight") \o ";" >>])

\* generateSCSSVariables, the Typography loop
scssTypographyLines(ds) ==
    ConcatAll([t \in 1..Len(ds.typography) |->
        LET size  == ds.typography[t].k
            props == ds.typography[t].v
        IN << "$font-size-" \o size \o ": " \o Get(props, "size") \o ";",
              "$line-height-" \o size \o ": " \o Get(props, "lineHeight") \o ";",
              "$font-weight-" \o size \o ": " \o Get(props, "weight") \o ";" >>])

\* generateSCSSVariables, the Spacing loop
scssSpacingLines(ds) ==
    [i \in 1..Len(ds.spacing) |->
        LET index == i - 1
        IN "$spacing-" \o ToString(index + 1) \o ": " \o ds.spacing[i] \o ";"]

\* generateSCSSVariables, the Border Radius loop
scssRadiusLines(ds) ==
    [i \in 1..Len(ds.borderRadius) |->
        LET index == i - 1
        IN "$border-radius-" \o ToString(index) \o ": " \o ds.borderRadius[i] \o ";"]

\* the base font variable is written before the first header
generateSCSSVariables_fontFamilyFirst(ds) ==
    << "// " \o ds.name \o " - Design System Variables", "" >>
       \o << "$font-family-base: " \o ds.fontFamily \o ";" >>
       \o << "// Colors" >> \o scssColorLines(ds)
       \o << "", "// Typography" >> \o scssTypographyLines(ds)
       \o << "", "// Spacing" >> \o scssSpacingLines(ds)
       \o << "", "// Border Radius" >> \o scssRadiusLines(ds)

generateSCSSVariables(ds) ==
    << "// " \o ds.name \o " - Design System Variables", "" >>
       \o << "// Colors" >> \o scssColorLines(ds)
       \o << "", "// Typography" >>
       \o << "$font-family-base: " \o ds.fontFamily \o ";" >> \o scssTypographyLines(ds)
       \o << "", "// Spacing" >> \o scssSpacingLines(ds)
       \o << "", "// Border Radius" >> \o scssRadiusLines(ds)

\* a leaf of the tokens object: { value, type }
tokenLeaf(value, type) == JObj(<< Entry("value", value), Entry("type", JStr(type)) >>)

\* generateTokensStudio, the Colors loop
tokensColors(ds) ==
    AssignAll(<< >>, [r \in 1..Len(ds.colors) |->
        Entry(ds.colors[r].k,
              JObj(AssignAll(<< >>, [i \in 1..Len(ds.colors[r].v) |->
                  Entry(ds.colors[r].v[i].k, tokenLeaf(JStr(ds.colors[r].v[i].v), "color"))])))])

\* slip: the font family left out of the typography value
tokensTypography_noFontFamily(ds) ==
    AssignAll(<< >>, [t \in 1..Len(ds.typography) |->
        LET props == ds.typography[t].v
        IN Entry(ds.typography[t].k,
                 tokenLeaf(JObj(<< Entry("fontSize", JStr(Get(props, "size"))),
                                   Entry("lineHeight", JStr(Get(props, "lineHeight"))),
                                   Entry("fontWeight", JStr(Get(props, "weight"))) >>),
                           "typography"))])

\* generateTokensStudio, the Typography loop
tokensTypography(ds) ==
    AssignAll(<< >>, [t \in 1..Len(ds.typography) |->
        LET props == ds.typography[t].v
        IN Entry(ds.typography[t].k,
                 tokenLeaf(JObj(<< Entry("fontSize", JStr(Get(props, "size"))),
                                   Entry("lineHeight", JStr(Get(props, "lineHeight"))),
                                   Entry("fontWeight", JStr(Get(props, "weight"))),
                                   Entry("fontFamily", JStr(ds.fontFamily)) >>),
                           "typography"))])

\* generateTokensStudio, the Spacing loop
tokensSpacing(ds) ==
    AssignAll(<< >>, [i \in 1..Len(ds.spacing) |->
        LET index == i - 1
        IN Entry(ToString(index + 1), tokenLeaf(JStr(ds.spacing[i]), "spacing"))])

\* generateTokensStudio, the Border Radius loop
tokensBorderRadius(ds) ==
    AssignAll(<< >>, [i \in 1..Len(ds.borderRadius) |->
        LET index == i - 1
        IN Entry(ToString(index), tokenLeaf(JStr(ds.borderRadius[i]), "borderRadius"))])

\* the tokens object generateTokensStudio fills before it is serialized
tokensObject(ds) ==
    << Entry("global", JObj(<<
          Entry("colors", JObj(tokensColors(ds))),
          Entry("typography", JObj(tokensTypography(ds))),
          Entry("spacing", JObj(tokensSpacing(ds))),
          Entry("borderRadius", JObj(tokensBorderRadius(ds))) >>)) >>

generateTokensStudio(ds) == JsonStringify(JObj(tokensObject(ds)))

\* The assignments of an exporter call.  Every object has an identity: the
\* objects the DesignSystem is made of ("designSystem", "designSystem.colors",
\* "designSystem.colors.<role>", "designSystem.typography",
\* "designSystem.typography.<size>", "designSystem.spacing",
\* "designSystem.borderRadius") and the objects a call creates.  A store
\* obj[key] = value names the object it writes.
Store(obj, key, value) == [obj |-> obj, k |-> key, v |-> value]

\* variables = {}; variables[...] = value
figmaStores(ds) ==
    LET assigned == figmaColorVars(ds) \o figmaTypographyVars(ds)
                    \o figmaSpacingVars(ds) \o figmaRadiusVars(ds)
                    \o << Entry("font/family", JStr(ds.fontFamily)) >>
    IN [i \in 1..Len(assigned) |-> Store("variables", assigned[i].k, assigned[i].v.s)]

\* css += ... rebinds a local string: no object is written
cssStores(ds) == << >>

\* the accumulator of the spacing reduce is the spacing array itself
tailwindStores_reduceIntoSpacing(ds) ==
    [i \in 1..Len(ds.spacing) |->
        LET index == i - 1
        IN Store("designSystem.spacing", ToString(index + 1), ds.spacing[i])]

\* colors = {}; colors[colorName] = {}; colors[colorName][shade] = value;
\* acc[index + 1] = space and acc[index] = radius on the {} each reduce starts from
tailwindStores(ds) ==
    ConcatAll([r \in 1..Len(ds.colors) |->
        LET colorName == ds.colors[r].k
            shades    == ds.colors[r].v
        IN << Store("colors", colorName, "colors." \o colorName) >>
           \o [i \in 1..Len(shades) |->
                  Store("colors." \o colorName, shades[i].k, shades[i].v)]])
    \o [i \in 1..Len(ds.spacing) |->
           LET index == i - 1
           IN Store("config.spacing", ToString(index + 1), ds.spacing[i])]
    \o [i \in 1..Len(ds.borderRadius) |->
           LET index == i - 1
           IN Store("config.borderRadius", ToString(index), ds.borderRadius[i])]

\* scss += ... rebinds a local string: no object is written
scssStores(ds) == << >>

\* tokens = { global: { colors: {}, ... } }; every store goes into tokens.global.*
tokensStores(ds) ==
    ConcatAll([r \in 1..Len(ds.colors) |->
        LET colorName == ds.colors[r].k
            shades    == ds.colors[r].v
        IN << Store("tokens.global.colors", colorName, "tokens.global.colors." \o colorName) >>
           \o [i \in 1..Len(shades) |->
                  Store("tokens.global.colors." \o colorName, shades[i].k, shades[i].v)]])
    \o [t \in 1..Len(ds.typography) |->
           Store("tokens.global.typography", ds.typography[t].k, "typography")]
    \o [i \in 1..Len(ds.spacing) |->
           LET index == i - 1
           IN Store("tokens.global.spacing", ToString(index + 1), ds.spacing[i])]
    \o [i \in 1..Len(ds.borderRadius) |->
           LET index == i - 1
           IN Store("tokens.global.borderRadius", ToString(index), ds.borderRadius[i])]

\* the stores of a sequence that write obj, as entries, in order
StoresTo(stores, obj) ==
    LET Hits(w) == w.obj = obj
        hits == SelectSeq(stores, Hits)
    IN [i \in 1..Len(hits) |-> Entry(hits[i].k, hits[i].v)]

\* an object of the DesignSystem after the stores
objectAfter(entries, obj, stores) == AssignAll(entries, StoresTo(stores, obj))

\* an array of the DesignSystem after the stores (element i has key i)
arrayAfter(items, obj, stores) ==
    LET after == AssignAll([i \in 1..Len(items) |-> Entry(ToString(i - 1), items[i])],
                           StoresTo(stores, obj))
    IN [i \in 1..Len(after) |-> after[i].v]

\* a string field of the DesignSystem after the stores
fieldAfter(value, key, stores) ==
    LET Hits(w) == w.k = key
        hits == SelectSeq(StoresTo(stores, "designSystem"), Hits)
    IN IF hits = << >> THEN value ELSE hits[Len(hits)].v

\* the DesignSystem as it reads once the stores of a call have been done
afterStores(ds, stores) ==
    LET colors     == objectAfter(ds.colors, "designSystem.colors", stores)
        typography == objectAfter(ds.typography, "designSystem.typography", stores)
    IN [ name         |-> fieldAfter(ds.name, "name", stores),
         colors       |-> [r \in 1..Len(colors) |->
                              Entry(colors[r].k,
                                    objectAfter(colors[r].v,
                                                "designSystem.colors." \o colors[r].k, stores))],
         typography   |-> [t \in 1..Len(typography) |->
                              Entry(typography[t].k,
                                    objectAfter(typography[t].v,
                                                "designSystem.typography." \o typography[t].k,
                                                stores))],
         spacing      |-> arrayAfter(ds.spacing, "designSystem.spacing", stores),
         borderRadius |-> arrayAfter(ds.borderRadius, "designSystem.borderRadius", stores),
         fontFamily   |-> fieldAfter(ds.fontFamily, "fontFamily", stores) ]

\* a render of DesignSystemGenerator evaluates the two exporters it owns
generatorRender(ds) == afterStores(ds, figmaStores(ds) \o cssStores(ds))

\* a render of ExportModal evaluates its three exporters to build formats
dialogRender(ds) ==
    afterStores(ds, tailwindStores(ds) \o scssStores(ds) \o tokensStores(ds))

\* the ids of the formats array of ExportModal, in order
formatIds == << "figma", "css", "tailwind", "scss", "tokens" >>

\* formats.find(f => f.id === format).content; figma and css are the props
\* DesignSystemGenerator computes from the same designSystem
formatContent(ds, format) ==
    CASE format = "figma"    -> generateFigmaVariables(ds)
      [] format = "css"      -> generateCSS(ds)
      [] format = "tailwind" -> generateTailwindConfig(ds)
      [] format = "scss"     -> generateSCSSVariables(ds)
      [] format = "tokens"   -> generateTokensStudio(ds)


----------------------------------------------------------------------------
(* SpecExport: the export dialog over design systems the generator produces *)

\* design systems at mount, after generate-random-system, and after one
\* role-shuffle or name edit of either
ExportedSystems ==
    LET fresh == {initialDesignSystem(p) : p \in DrawnHues}
                 \cup {randomDesignSystem(n, f, p) :
                          n \in DrawnSuffixes, f \in DrawnFontIdx, p \in DrawnHues}
    IN fresh
       \cup {withShuffledRole(ds, RoleNames[r], h) : ds \in fresh, r \in 1..7, h \in DrawnHues}
       \cup {withName(ds, v) : ds \in fresh, v \in TypedNames}

\* the first render: args holds the DesignSystem the exporters are passed
InitExport ==
    /\ pc = "idle"
    /\ result = NoValue
    /\ IdleBuilder
    /\ args \in ExportedSystems
    /\ designSystem = dialogRender(generatorRender(args))
    /\ exportFormat = "figma"
    /\ content = formatContent(args, exportFormat)

\* the dialog's tab change; the text shown is that of the selected format
SetExportFormat ==
    /\ \E f \in 1..Len(formatIds) :
          /\ exportFormat' = formatIds[f]
          /\ content' = formatContent(designSystem, formatIds[f])
    /\ args' = designSystem
    /\ designSystem' = dialogRender(designSystem)
    /\ UNCHANGED <<pc, result, selectedComponent, generatedComponents>>

NextExport == SetExportFormat

SpecExport == InitExport /\ [][NextExport]_vars

----------------------------------------------------------------------------
(* Reading an export back: lines of declarations, and indented JSON text *)

StartsWith(str, prefix) ==
    Len(str) >= Len(prefix) /\ SubSeq(str, 1, Len(prefix)) = prefix

EndsWith(str, suffix) ==
    Len(str) >= Len(suffix) /\ SubSeq(str, Len(str) - Len(suffix) + 1, Len(str)) = suffix

\* the lines of a text that start with prefix, in order
LinesWith(lines, prefix) ==
    LET Test(line) == StartsWith(line, prefix) IN SelectSeq(lines, Test)

StripComma(str) == IF EndsWith(str, ",") THEN SubSeq(str, 1, Len(str) - 1) ELSE str

RECURSIVE FindQuote(_, _)
\* the position of the first double quote of str at or after p (Len(str)+1: none)
FindQuote(str, p) ==
    IF p > Len(str) \/ CharAt(str, p) = "\"" THEN p ELSE FindQuote(str, p + 1)

Invalid == [t |-> "invalid"]

RECURSIVE ParseMembers(_, _, _, _, _)
\* the members written on lines lo..hi at nesting depth; each starts on a
\* line indented by exactly depth whose text opens with a quote
ParseMembers(lines, lo, hi, depth, keyed) ==
    LET pad == Indent(depth)
        IsStart(j) == StartsWith(lines[j], pad \o "\"")
        index == [n \in 1..(hi - lo + 1) |-> lo + n - 1]
        starts == SelectSeq(index, IsStart)
        Member(m) ==
            LET j     == starts[m]
                end   == IF m < Len(starts) THEN starts[m + 1] - 1 ELSE hi
                text  == SubSeq(lines[j], Len(pad) + 1, Len(lines[j]))
                q     == FindQuote(text, 2)
                key   == IF keyed THEN SubSeq(text, 2, q - 1) ELSE ""
                first == IF keyed THEN SubSeq(text, q + 3, Len(text)) ELSE text
                sepOk == (m < Len(starts)) = EndsWith(lines[end], ",")
                valOk == ~keyed \/ (q <= Len(text) /\ SubSeq(text, q, q + 2) = "\": ")
                bare  == StripComma(first)
                value ==
                    IF StartsWith(bare, "\"") /\ EndsWith(bare, "\"") /\ Len(bare) >= 2 /\ end = j
                        THEN [t |-> "string", s |-> SubSeq(bare, 2, Len(bare) - 1)]
                    ELSE IF bare \in {"{}", "[]"} /\ end = j
                        THEN [t |-> IF bare = "{}" THEN "object" ELSE "array", e |-> << >>]
                    ELSE IF first \in {"{", "["} /\ end > j
                            /\ StripComma(lines[end]) = pad \o (IF first = "{" THEN "}" ELSE "]")
                        THEN LET inner == ParseMembers(lines, j + 1, end - 1, depth + 1, first = "{")
                             IN IF ~inner.ok THEN Invalid
                                ELSE [t |-> IF first = "{" THEN "object" ELSE "array", e |-> inner.e]
                    ELSE Invalid
            IN IF sepOk /\ valOk THEN Entry(key, value) ELSE Entry(key, Invalid)
        members == [m \in 1..Len(starts) |-> Member(m)]
    IN IF hi < lo \/ Len(starts) = 0 \/ starts[1] # lo
          \/ \E m \in 1..Len(members) : members[m].v.t = "invalid"
       THEN [ok |-> FALSE, e |-> << >>]
       ELSE [ok |-> TRUE, e |-> members]

\* the value an indented JSON text (an object on several lines) denotes
ParseJson(lines) ==
    IF Len(lines) >= 3 /\ lines[1] = "{" /\ lines[Len(lines)] = "}"
    THEN LET inner == ParseMembers(lines, 2, Len(lines) - 1, 1, TRUE)
         IN IF ~inner.ok THEN Invalid ELSE [t |-> "object", e |-> inner.e]
    ELSE Invalid

\* the member of a parsed object at a path of keys (Invalid: none)
RECURSIVE AtPath(_, _)
AtPath(value, path) ==
    IF path = << >> THEN value
    ELSE IF value.t = "object" /\ Has(value.e, Head(path))
         THEN AtPath(Get(value.e, Head(path)), Tail(path))
         ELSE Invalid

----------------------------------------------------------------------------
(* Claims on the exports, read from the text the dialog shows *)

\* the exported key of the entry at 1-based position i, whose 0-based index is i - 1
SpacingKey(i) == ToString((i - 1) + 1)
RadiusKey(i) == ToString(i - 1)

\* the members of a parsed object whose key starts with prefix, in order
MembersWith(value, prefix) ==
    LET Test(member) == StartsWith(member.k, prefix) IN SelectSeq(value.e, Test)

ScalesInDeclarations(spacingPrefix, radiusPrefix) ==
    /\ LinesWith(content, spacingPrefix) =
          [i \in 1..Len(designSystem.spacing) |->
              spacingPrefix \o SpacingKey(i) \o ": " \o designSystem.spacing[i] \o ";"]
    /\ LinesWith(content, radiusPrefix) =
          [i \in 1..Len(designSystem.borderRadius) |->
              radiusPrefix \o RadiusKey(i) \o ": " \o designSystem.borderRadius[i] \o ";"]

ScalesInFigma ==
    LET root == ParseJson(content)
    IN /\ root.t = "object"
       /\ MembersWith(root, "spacing/") =
             [i \in 1..Len(designSystem.spacing) |->
                 Entry("spacing/" \o SpacingKey(i), JStr(designSystem.spacing[i]))]
       /\ MembersWith(root, "radius/") =
             [i \in 1..Len(designSystem.borderRadius) |->
                 Entry("radius/" \o RadiusKey(i), JStr(designSystem.borderRadius[i]))]

ScalesInTailwind ==
    LET root == ParseJson(content)
    IN /\ AtPath(root, <<"theme", "extend", "spacing">>) =
             JObj([i \in 1..Len(designSystem.spacing) |->
                     Entry(SpacingKey(i), JStr(designSystem.spacing[i]))])
       /\ AtPath(root, <<"theme", "extend", "borderRadius">>) =
             JObj([i \in 1..Len(designSystem.borderRadius) |->
                     Entry(RadiusKey(i), JStr(designSystem.borderRadius[i]))])

ScalesInTokens ==
    LET root    == ParseJson(content)
        spacing == AtPath(root, <<"global", "spacing">>)
        radius  == AtPath(root, <<"global", "borderRadius">>)
    IN /\ spacing.t = "object"
       /\ Keys(spacing.e) = [i \in 1..Len(designSystem.spacing) |-> SpacingKey(i)]
       /\ \A i \in 1..Len(designSystem.spacing) :
             AtPath(spacing, <<SpacingKey(i), "value">>) = JStr(designSystem.spacing[i])
       /\ radius.t = "object"
       /\ Keys(radius.e) = [i \in 1..Len(designSystem.borderRadius) |-> RadiusKey(i)]
       /\ \A i \in 1..Len(designSystem.borderRadius) :
             AtPath(radius, <<RadiusKey(i), "value">>) = JStr(designSystem.borderRadius[i])

\* C7: in each of the five exports the spacing entry at 0-based index i is
\* exported under key i+1 and the borderRadius entry at 0-based index i under
\* key i, for every index of the two sequences, and no other spacing or
\* radius key is exported.
C7_ScaleNumbering ==
    /\ exportFormat = "css" => ScalesInDeclarations("  --spacing-", "  --radius-")
    /\ exportFormat = "scss" => ScalesInDeclarations("$spacing-", "$border-radius-")
    /\ exportFormat = "figma" => ScalesInFigma
    /\ exportFormat = "tailwind" => ScalesInTailwind
    /\ exportFormat = "tokens" => ScalesInTokens

\* the stylesheet export of a design system, showing both offsets
C7_Witness ==
    /\ exportFormat = "css"
    /\ \E i \in 1..Len(content) : content[i] = "  --spacing-1: 4px;"
    /\ \E i \in 1..Len(content) : content[i] = "  --radius-0: 0px;"
    /\ \E i \in 1..Len(content) : content[i] = "  --spacing-10: 64px;"

\* C8: generateCSS emits ":root {", then one declaration per line: the colors
\* (roles in palette order, the ten steps of each in order), then for each
\* typography size in order --text, --leading, --weight, then the spacing
\* declarations in array order, then the radius declarations in array order,
\* then --font-family, and the closing "}".
C8_StylesheetOrder ==
    exportFormat = "css" =>
        LET colors == designSystem.colors
            typo   == designSystem.typography
            nS     == Len(designSystem.spacing)
            nR     == Len(designSystem.borderRadius)
            c0     == 1
            t0     == c0 + 70
            s0     == t0 + 27
            r0     == s0 + nS
            f0     == r0 + nR
        IN /\ Keys(colors) = RoleNames
           /\ Keys(typo) = SizeKeys
           /\ Len(content) = f0 + 2
           /\ content[1] = ":root {"
           /\ \A r \in 1..7 : \A i \in 1..10 :
                 content[c0 + (r - 1) * 10 + i] =
                     "  --" \o RoleNames[r] \o "-" \o StepKeys[i] \o ": "
                            \o Get(Get(colors, RoleNames[r]), StepKeys[i]) \o ";"
           /\ \A t \in 1..9 :
                 /\ content[t0 + (t - 1) * 3 + 1] =
                       "  --text-" \o SizeKeys[t] \o ": " \o Get(Get(typo, SizeKeys[t]), "size") \o ";"
                 /\ content[t0 + (t - 1) * 3 + 2] =
                       "  --leading-" \o SizeKeys[t] \o ": " \o Get(Get(typo, SizeKeys[t]), "lineHeight") \o ";"
                 /\ content[t0 + (t - 1) * 3 + 3] =
                       "  --weight-" \o SizeKeys[t] \o ": " \o Get(Get(typo, SizeKeys[t]), "weight") \o ";"
           /\ \A i \in 1..nS : StartsWith(content[s0 + i], "  --spacing-")
                               /\ EndsWith(content[s0 + i], ": " \o designSystem.spacing[i] \o ";")
           /\ \A i \in 1..nR : StartsWith(content[r0 + i], "  --radius-")
                               /\ EndsWith(content[r0 + i], ": " \o designSystem.borderRadius[i] \o ";")
           /\ content[f0 + 1] = "  --font-family: " \o designSystem.fontFamily \o ";"
           /\ content[f0 + 2] = "}"

\* the stylesheet of a design system whose neutral role was shuffled
C8_Witness ==
    /\ exportFormat = "css"
    /\ Len(content) = 116
    /\ content[2] = "  --primary-50: hsl(359, 30%, 95%);"
    /\ content[37] = "  --neutral-500: hsl(359, 70%, 50%);"
    /\ content[115] = "  --font-family: Inter, sans-serif;"

\* the keys the structured-variable export must hold, in any order
FigmaKeySet ==
    {"color/" \o RoleNames[r] \o "/" \o StepKeys[i] : r \in 1..7, i \in 1..10}
    \cup {"typography/" \o SizeKeys[t] \o "/" \o f :
             t \in 1..9, f \in {"size", "lineHeight", "weight"}}
    \cup {"spacing/" \o SpacingKey(i) : i \in 1..Len(designSystem.spacing)}
    \cup {"radius/" \o RadiusKey(i) : i \in 1..Len(designSystem.borderRadius)}
    \cup {"font/family"}

\* C9: the structured-variable export is a flat mapping whose keys are
\* exactly color/<role>/<step> (7 roles x 10 steps), typography/<size>/size,
\* /lineHeight and /weight (9 sizes), spacing/<i+1>, radius/<i> and
\* font/family, pairwise distinct (114 entries for the default scales), each
\* mapped to the corresponding value of the DesignSystem.
C9_FigmaVariables ==
    exportFormat = "figma" =>
        LET root == ParseJson(content)
        IN /\ root.t = "object"
           /\ \A m \in 1..Len(root.e) : root.e[m].v.t = "string"
           /\ KeySet(root.e) = FigmaKeySet
           /\ Len(root.e) = Cardinality(FigmaKeySet)
           /\ Len(root.e) = 70 + 27 + Len(designSystem.spacing) + Len(designSystem.borderRadius) + 1
           /\ Len(designSystem.spacing) = 10 /\ Len(designSystem.borderRadius) = 6
                 => Len(root.e) = 114
           /\ \A r \in 1..7 : \A i \in 1..10 :
                 Get(root.e, "color/" \o RoleNames[r] \o "/" \o StepKeys[i]) =
                     JStr(Get(Get(designSystem.colors, RoleNames[r]), StepKeys[i]))
           /\ \A t \in 1..9 : \A f \in {"size", "lineHeight", "weight"} :
                 Get(root.e, "typography/" \o SizeKeys[t] \o "/" \o f) =
                     JStr(Get(Get(designSystem.typography, SizeKeys[t]), f))
           /\ \A i \in 1..Len(designSystem.spacing) :
                 Get(root.e, "spacing/" \o SpacingKey(i)) = JStr(designSystem.spacing[i])
           /\ \A i \in 1..Len(designSystem.borderRadius) :
                 Get(root.e, "radius/" \o RadiusKey(i)) = JStr(designSystem.borderRadius[i])
           /\ Get(root.e, "font/family") = JStr(designSystem.fontFamily)

\* the structured-variable export of a freshly generated design system
C9_Witness ==
    /\ exportFormat = "figma"
    /\ Len(content) = 116
    /\ designSystem.name = "Design System 999"
    /\ content[2] = "  \"color/primary/50\": \"hsl(0, 30%, 95%)\","
    /\ content[115] = "  \"font/family\": \"Roboto, sans-serif\""

\* C10: in the design-token-file export global has exactly the four
\* sub-namespaces colors, typography, spacing, borderRadius; every leaf under
\* colors is {value, type: "color"} for one role and step; every leaf under
\* typography is {value: {fontSize, lineHeight, fontWeight, fontFamily},
\* type: "typography"} for one size, with the DesignSystem's fontFamily; every
\* leaf under spacing has type "spacing" and every leaf under borderRadius
\* has type "borderRadius".
C10_TokensLeaves ==
    exportFormat = "tokens" =>
        LET root    == ParseJson(content)
            global  == AtPath(root, <<"global">>)
            colors  == AtPath(global, <<"colors">>)
            typo    == AtPath(global, <<"typography">>)
            spacing == AtPath(global, <<"spacing">>)
            radius  == AtPath(global, <<"borderRadius">>)
        IN /\ root.t = "object" /\ Keys(root.e) = <<"global">>
           /\ global.t = "object"
           /\ Len(global.e) = 4
           /\ KeySet(global.e) = {"colors", "typography", "spacing", "borderRadius"}
           /\ colors.t = "object" /\ KeySet(colors.e) = KeySet(designSystem.colors)
           /\ \A r \in 1..Len(colors.e) :
                 LET role == colors.e[r]
                 IN /\ role.v.t = "object"
                    /\ KeySet(role.v.e) = KeySet(Get(designSystem.colors, role.k))
                    /\ \A i \in 1..Len(role.v.e) :
                          role.v.e[i].v =
                              JObj(<< Entry("value", JStr(Get(Get(designSystem.colors, role.k),
                                                                   role.v.e[i].k))),
                                      Entry("type", JStr("color")) >>)
           /\ typo.t = "object" /\ KeySet(typo.e) = KeySet(designSystem.typography)
           /\ \A t \in 1..Len(typo.e) :
                 LET props == Get(designSystem.typography, typo.e[t].k)
                     leaf  == typo.e[t].v
                 IN /\ leaf.t = "object" /\ KeySet(leaf.e) = {"value", "type"}
                    /\ Len(leaf.e) = 2
                    /\ Get(leaf.e, "type") = JStr("typography")
                    /\ Get(leaf.e, "value").t = "object"
                    /\ Len(Get(leaf.e, "value").e) = 4
                    /\ AtPath(leaf, <<"value", "fontSize">>) = JStr(Get(props, "size"))
                    /\ AtPath(leaf, <<"value", "lineHeight">>) = JStr(Get(props, "lineHeight"))
                    /\ AtPath(leaf, <<"value", "fontWeight">>) = JStr(Get(props, "weight"))
                    /\ AtPath(leaf, <<"value", "fontFamily">>) = JStr(designSystem.fontFamily)
           /\ spacing.t = "object" /\ Len(spacing.e) = Len(designSystem.spacing)
           /\ \A i \in 1..Len(spacing.e) :
                 /\ KeySet(spacing.e[i].v.e) = {"value", "type"}
                 /\ AtPath(spacing.e[i].v, <<"type">>) = JStr("spacing")
           /\ radius.t = "object" /\ Len(radius.e) = Len(designSystem.borderRadius)
           /\ \A i \in 1..Len(radius.e) :
                 /\ KeySet(radius.e[i].v.e) = {"value", "type"}
                 /\ AtPath(radius.e[i].v, <<"type">>) = JStr("borderRadius")

\* the token file of a design system with the second font and a shuffled role
C10_Witness ==
    /\ exportFormat = "tokens"
    /\ designSystem.fontFamily = "Roboto, sans-serif"
    /\ AtPath(ParseJson(content), <<"global", "typography", "5xl", "value", "fontFamily">>)
          = JStr("Roboto, sans-serif")
    /\ AtPath(ParseJson(content), <<"global", "colors", "warning", "900", "type">>) = JStr("color")
    /\ AtPath(ParseJson(content), <<"global", "colors", "warning", "500", "value">>)
          = JStr("hsl(359, 70%, 50%)")

----------------------------------------------------------------------------
(* The preprocessor export: comment headers and the lines grouped under them *)

ScssHeaders == << "Colors", "Typography", "Spacing", "Border Radius" >>

IsHeaderLine(line) == \E g \in 1..Len(ScssHeaders) : line = "// " \o ScssHeaders[g]

\* the positions of the header lines of a text, in order
HeaderPositions(lines) ==
    LET Test(j) == IsHeaderLine(lines[j]) IN SelectSeq([j \in 1..Len(lines) |-> j], Test)

\* the header a line lies under: the last header line above it ("": none)
GroupOf(lines, j) ==
    LET above == {p \in 1..(j - 1) : IsHeaderLine(lines[p])}
    IN IF above = {} THEN ""
       ELSE LET last == CHOOSE p \in above : \A q \in above : q <= p
            IN SubSeq(lines[last], 4, Len(lines[last]))

\* the group the contract assigns to a variable line, by the line's name
ContractGroup(line) ==
    IF \/ StartsWith(line, "$font-family-base: ")
       \/ StartsWith(line, "$font-size-")
       \/ StartsWith(line, "$line-height-")
       \/ StartsWith(line, "$font-weight-")
    THEN "Typography"
    ELSE IF StartsWith(line, "$spacing-") THEN "Spacing"
    ELSE IF StartsWith(line, "$border-radius-") THEN "Border Radius"
    ELSE IF \E r \in 1..Len(RoleNames) : \E i \in 1..Len(StepKeys) :
               StartsWith(line, "$" \o RoleNames[r] \o "-" \o StepKeys[i] \o ": ")
    THEN "Colors"
    ELSE "none"

\* C11: generateSCSSVariables writes the comment headers Colors, Typography,
\* Spacing, Border Radius once each and in that order; every $<role>-<step>
\* line lies under Colors, $font-family-base and every $font-size,
\* $line-height and $font-weight line under Typography, every
\* $spacing-<i+1> line under Spacing and every $border-radius-<i> line under
\* Border Radius, and all of these lines are present.
C11_ScssGrouping ==
    exportFormat = "scss" =>
        LET heads == HeaderPositions(content)
        IN /\ Len(heads) = 4
           /\ \A g \in 1..4 : content[heads[g]] = "// " \o ScssHeaders[g]
           /\ \A j \in 1..Len(content) :
                 StartsWith(content[j], "$") =>
                     /\ ContractGroup(content[j]) # "none"
                     /\ GroupOf(content, j) = ContractGroup(content[j])
           /\ \A r \in 1..7 : \A i \in 1..10 :
                 Len(LinesWith(content, "$" \o RoleNames[r] \o "-" \o StepKeys[i] \o ": ")) = 1
           /\ Len(LinesWith(content, "$font-family-base: ")) = 1
           /\ \A t \in 1..9 :
                 /\ Len(LinesWith(content, "$font-size-" \o SizeKeys[t] \o ": ")) = 1
                 /\ Len(LinesWith(content, "$line-height-" \o SizeKeys[t] \o ": ")) = 1
                 /\ Len(LinesWith(content, "$font-weight-" \o SizeKeys[t] \o ": ")) = 1
           /\ \A i \in 1..Len(designSystem.spacing) :
                 Len(LinesWith(content, "$spacing-" \o SpacingKey(i) \o ": ")) = 1
           /\ \A i \in 1..Len(designSystem.borderRadius) :
                 Len(LinesWith(content, "$border-radius-" \o RadiusKey(i) \o ": ")) = 1

\* the preprocessor export of a renamed design system
C11_Witness ==
    /\ exportFormat = "scss"
    /\ content[1] = "// Acme - Design System Variables"
    /\ content[3] = "// Colors"
    /\ content[4] = "$primary-50: hsl(0, 30%, 95%);"
    /\ content[75] = "// Typography"
    /\ content[76] = "$font-family-base: Inter, sans-serif;"
    /\ content[Len(content)] = "$border-radius-5: 24px;"

----------------------------------------------------------------------------
(* The exporters and the DesignSystem they are passed *)

\* C12: none of the five exporters changes the DesignSystem: after the calls
\* of a render the record (name, colors, typography, spacing, borderRadius,
\* fontFamily) is identical to the record the exporters were passed.
C12_ExportersKeepDesignSystem ==
    /\ DOMAIN designSystem = {"name", "colors", "typography", "spacing", "borderRadius", "fontFamily"}
    /\ designSystem = args

\* the dialog showing the build-tool config of a generated system, whose
\* exporters have run on it
C12_Witness ==
    /\ exportFormat = "tailwind"
    /\ args.name = "Design System 999"
    /\ designSystem.spacing = <<"4px", "8px", "12px", "16px", "20px", "24px", "32px", "40px", "48px", "64px">>
    /\ AtPath(ParseJson(content), <<"theme", "extend", "spacing", "10">>) = JStr("64px")

----------------------------------------------------------------------------
(* Component formatter: generateComponentCode, a text with "\n" line breaks *)

RECURSIVE Join(_, _)
\* names.join(separator)
Join(names, separator) ==
    IF names = << >> THEN ""
    ELSE IF Len(names) = 1 THEN names[1]
    ELSE names[1] \o separator \o Join(Tail(names), separator)

\* the filter is dropped: every key of props is listed
truthyProps_noFilter(component) == Keys(component.props)

\* Object.entries(component.props).filter(([_, value]) => value).map(([key, _]) => key)
truthyProps(component) ==
    LET Truthy(entry) == entry.v
    IN Keys(SelectSeq(component.props, Truthy))

\* the default branch falls through to the last template
generateComponentCode_defaultAlert(component) ==
    LET props == Join(truthyProps(component), " ")
    IN IF component.type = "button" THEN
           "<Button variant=\"" \o component.variant \o "\" size=\"" \o component.size
               \o "\" " \o props \o ">\n  " \o component.text \o "\n</Button>"
       ELSE "<Alert variant=\"" \o component.variant \o "\" " \o props
               \o ">\n  <AlertDescription>\n    " \o component.text
               \o "\n  </AlertDescription>\n</Alert>"

generateComponentCode(component) ==
    LET props == Join(truthyProps(component), " ")
    IN CASE component.type = "button" ->
               "<Button variant=\"" \o component.variant \o "\" size=\"" \o component.size
                   \o "\" " \o props \o ">\n  " \o component.text \o "\n</Button>"
         [] component.type = "card" ->
               "<Card className=\"" \o (IF component.size = "lg" THEN "p-6" ELSE "p-4")
                   \o "\" " \o props \o ">\n  <CardHeader>\n    <CardTitle>"
                   \o component.text
                   \o "</CardTitle>\n  </CardHeader>\n  <CardContent>\n"
                   \o "    Card content goes here...\n  </CardContent>\n</Card>"
         [] component.type = "input" ->
               "<Input \n  placeholder=\"" \o component.text \o "\"\n  size=\""
                   \o component.size \o "\"\n  " \o props \o "\n/>"
         [] component.type = "badge" ->
               "<Badge variant=\"" \o component.variant \o "\" " \o props \o ">\n  "
                   \o component.text \o "\n</Badge>"
         [] component.type = "alert" ->
               "<Alert variant=\"" \o component.variant \o "\" " \o props
                   \o ">\n  <AlertDescription>\n    " \o component.text
                   \o "\n  </AlertDescription>\n</Alert>"
         [] OTHER -> ""

\* types the registry does not hold, as a caller outside the builder may pass
UnrecognizedTypes == {"tooltip", ""}

\* every props mapping over the given names: any subset, in any insertion
\* order, each name true or false
PropMaps(names) ==
    LET entries == {Entry(names[i], b) : i \in 1..Len(names), b \in BOOLEAN}
        maps    == UNION {[1..n -> entries] : n \in 0..Len(names)}
    IN {map \in maps : \A i, j \in 1..Len(map) : i # j => map[i].k # map[j].k}

\* the configurations generateComponentCode is applied to
FormatterInputs ==
    UNION {[ type    : {componentTypes[t]},
             variant : Range(componentTemplates[componentTypes[t]].variants),
             size    : Range(componentTemplates[componentTypes[t]].sizes),
             text    : {componentTemplates[componentTypes[t]].defaultText} \cup TypedTexts,
             props   : PropMaps(componentTemplates[componentTypes[t]].props) ]
           : t \in 1..Len(componentTypes)}
    \cup [ type    : UnrecognizedTypes,
           variant : {"default"},
           size    : {"md"},
           text    : TypedTexts,
           props   : PropMaps(<< "disabled" >>) ]

InitCode ==
    /\ pc = "call"
    /\ args \in FormatterInputs
    /\ result = NoValue
    /\ IdleDesignSystem
    /\ IdleBuilder

CallGenerateComponentCode ==
    /\ pc = "call"
    /\ result' = generateComponentCode(args)
    /\ pc' = "done"
    /\ UNCHANGED <<args, designSystem, exportFormat, content,
                   selectedComponent, generatedComponents>>

NextCode == CallGenerateComponentCode

SpecCode == InitCode /\ [][NextCode]_vars

\* str contains sub
Contains(str, sub) ==
    \E i \in 1..(Len(str) - Len(sub) + 1) : SubSeq(str, i, i + Len(sub) - 1) = sub

\* what each template writes before and after the property list
BeforeProps(component) ==
    CASE component.type = "button" ->
             "<Button variant=\"" \o component.variant \o "\" size=\"" \o component.size \o "\" "
      [] component.type = "card"   ->
             "<Card className=\"" \o (IF component.size = "lg" THEN "p-6" ELSE "p-4") \o "\" "
      [] component.type = "input"  ->
             "<Input \n  placeholder=\"" \o component.text \o "\"\n  size=\""
                 \o component.size \o "\"\n  "
      [] component.type = "badge"  -> "<Badge variant=\"" \o component.variant \o "\" "
      [] component.type = "alert"  -> "<Alert variant=\"" \o component.variant \o "\" "

AfterProps(component) ==
    CASE component.type = "button" -> ">\n  " \o component.text \o "\n</Button>"
      [] component.type = "card"   ->
             ">\n  <CardHeader>\n    <CardTitle>" \o component.text
                 \o "</CardTitle>\n  </CardHeader>\n  <CardContent>\n"
                 \o "    Card content goes here...\n  </CardContent>\n</Card>"
      [] component.type = "input"  -> "\n/>"
      [] component.type = "badge"  -> ">\n  " \o component.text \o "\n</Badge>"
      [] component.type = "alert"  ->
             ">\n  <AlertDescription>\n    " \o component.text
                 \o "\n  </AlertDescription>\n</Alert>"

\* the property list of a snippet: what stands between the two
PropList(component, code) ==
    SubSeq(code, Len(BeforeProps(component)) + 1, Len(code) - Len(AfterProps(component)))

RECURSIVE SplitSpaces(_, _)
\* the words of str from position p on, a single space separating two words
SplitSpaces(str, p) ==
    LET stops == {q \in p..Len(str) : CharAt(str, q) = " "}
        stop  == IF stops = {} THEN Len(str) + 1
                 ELSE CHOOSE q \in stops : \A o \in stops : q <= o
    IN IF stop > Len(str) THEN << SubSeq(str, p, Len(str)) >>
       ELSE << SubSeq(str, p, stop - 1) >> \o SplitSpaces(str, stop + 1)

RecognizedType(type) == type \in Range(componentTypes)

\* C14: for every configuration of a recognized type the property list in
\* the snippet of generateComponentCode consists of exactly the names of
\* config.props whose value is true, separated by single spaces, in the
\* iteration order of props; a name whose value is false is not in the list.
C14_PropertyList ==
    (pc = "done" /\ RecognizedType(args.type)) =>
        LET list  == PropList(args, result)
            truen == [i \in 1..Len(args.props) |-> args.props[i]]
            IsTrue(entry) == entry.v = TRUE
            names == Keys(SelectSeq(truen, IsTrue))
        IN /\ StartsWith(result, BeforeProps(args))
           /\ EndsWith(result, AfterProps(args))
           /\ Len(result) >= Len(BeforeProps(args)) + Len(AfterProps(args))
           /\ IF names = << >> THEN list = ""
              ELSE SplitSpaces(list, 1) = names
           /\ \A i \in 1..Len(args.props) :
                 args.props[i].v = FALSE => ~Contains(list, args.props[i].k)

\* the button of the contract's example: disabled true next to loading false
C14_Witness ==
    /\ pc = "done"
    /\ args = [ type |-> "button", variant |-> "primary", size |-> "md", text |-> "Click me",
                props |-> << Entry("disabled", TRUE), Entry("loading", FALSE) >> ]
    /\ result = "<Button variant=\"primary\" size=\"md\" disabled>\n  Click me\n</Button>"

\* C15: for each of the five component types, changing any one of variant,
\* size or text of a configuration to another allowed value changes the
\* snippet generateComponentCode returns.
C15_SnippetDependsOnVariantSizeText ==
    (pc = "done" /\ RecognizedType(args.type)) =>
        LET template == componentTemplates[args.type]
        IN /\ \A v \in Range(template.variants) \ {args.variant} :
                 generateComponentCode([args EXCEPT !.variant = v]) # result
           /\ \A z \in Range(template.sizes) \ {args.size} :
                 generateComponentCode([args EXCEPT !.size = z]) # result
           /\ \A x \in ({template.defaultText} \cup TypedTexts) \ {args.text} :
                 generateComponentCode([args EXCEPT !.text = x]) # result

\* C16: generateComponentCode returns the empty string, as an ordinary
\* return value, for a configuration whose type is not one of button, card,
\* input, badge, alert, and a non-empty snippet for each of the five types.
C16_UnrecognizedTypeEmpty ==
    pc = "done" =>
        /\ RecognizedType(args.type) => (Len(result) > 0 /\ StartsWith(result, "<"))
        /\ ~RecognizedType(args.type) => result = ""

\* a configuration of a type the registry does not hold has been formatted
C16_Witness ==
    /\ pc = "done"
    /\ args.type = "tooltip"
    /\ args.props = << Entry("disabled", TRUE) >>
    /\ result = ""

----------------------------------------------------------------------------
(* Frame and effect of the design-system operations, step by step *)

\* a role-shuffle of the role colorName
RoleShuffleOf(colorName) ==
    \E baseHue \in DrawnHues :
        designSystem' = withShuffledRole(designSystem, colorName, baseHue)

\* the fields of the record other than the named ones are the same before and after
SameExcept(fields) ==
    \A f \in {"name", "colors", "typography", "spacing", "borderRadius", "fontFamily"} \ fields :
        designSystem'[f] = designSystem[f]

\* C17: a role-shuffle on role r replaces colors[r] with
\* generateColorShade(h, 70) for a hue h in [0,360) and leaves the ColorShade
\* of each of the other six roles, and name, typography, spacing,
\* borderRadius and fontFamily, unchanged, for every one of the seven roles.
C17_RoleShuffleFrame ==
    [][\A r \in 1..Len(RoleNames) :
          RoleShuffleOf(RoleNames[r]) =>
              \E shades \in {Get(designSystem'.colors, RoleNames[r])} :
              \E h \in {ParseHsl(Get(shades, "500")).h} :
                 /\ h \in 0..(HueRange - 1)
                 /\ shades = generateColorShade(h, 70)
                 /\ Keys(designSystem'.colors) = RoleNames
                 /\ \A q \in 1..Len(RoleNames) :
                       q # r => Get(designSystem'.colors, RoleNames[q])
                                    = Get(designSystem.colors, RoleNames[q])
                 /\ SameExcept({"colors"})]_vars

\* the neutral role of the first design system shuffled, nothing else touched
C17_Witness ==
    /\ designSystem.name = "My Design System"
    /\ designSystem.fontFamily = "Inter, sans-serif"
    /\ Get(designSystem.colors, "neutral") = generateColorShade(359, 70)
    /\ Get(designSystem.colors, "primary") = generateColorShade(0, 70)
    /\ Get(designSystem.colors, "error") = generateColorShade(0, 70)
    /\ Get(designSystem.colors, "success") = generateColorShade(120, 60)

\* C18: each single-field operation changes only its target field:
\* palette-shuffle only colors, name edit only name, font select only
\* fontFamily; all other fields are identical before and after.
C18_SingleFieldFrame ==
    [][/\ PaletteShuffle => SameExcept({"colors"})
       /\ NameEdit => SameExcept({"name"})
       /\ FontSelect => SameExcept({"fontFamily"})]_vars

\* a renamed system with a shuffled role, after a font selection and a
\* palette-shuffle
C18_Witness ==
    /\ designSystem.name = "Acme"
    /\ designSystem.fontFamily = "Roboto, sans-serif"
    /\ designSystem.colors = generateRandomPalette(359)
    /\ designSystem.typography = defaultTypography

\* the decimal number a text consists of (-1: not a number)
NatOf(str) ==
    LET n == ReadNat(str, 1, 0)
    IN IF Len(str) > 0 /\ n.next = Len(str) + 1 THEN n.val ELSE -1

----------------------------------------------------------------------------
(* SpecRandomSystem: generateRandomSystem applied to design systems the
   generator can hold, over every hue and every font it can draw *)

PreviousSystems ==
    { initialDesignSystem(0),
      withName(withShuffledRole(initialDesignSystem(HueRange - 1), "neutral", 0), "Acme"),
      withFontFamily(randomDesignSystem(0, 1, HueRange - 1), fontFamilies[3]) }

InitRandomSystem ==
    /\ pc = "call"
    /\ args = NoValue
    /\ result = NoValue
    /\ designSystem \in PreviousSystems
    /\ exportFormat = "figma"
    /\ content = NoValue
    /\ IdleBuilder

CallGenerateRandomSystem ==
    /\ pc = "call"
    /\ \E suffix \in DrawnSuffixes, fontIdx \in 0..(Len(fontFamilies) - 1),
          primaryHue \in 0..(HueRange - 1) :
          designSystem' = randomDesignSystem(suffix, fontIdx, primaryHue)
    /\ pc' = "done"
    /\ UNCHANGED <<args, result, exportFormat, content,
                   selectedComponent, generatedComponents>>

NextRandomSystem == CallGenerateRandomSystem

SpecRandomSystem == InitRandomSystem /\ [][NextRandomSystem]_vars

\* C19: generate-random-system replaces the whole record, whatever the
\* previous state, with name = "Design System N" for an integer N in
\* [0,1000), fontFamily one of the ten entries of the font list, colors a
\* generateRandomPalette result, typography the default nine-size scale,
\* spacing the fixed ten-entry default and borderRadius the fixed six-entry
\* default.
C19_GenerateRandomSystem ==
    pc = "done" =>
        \E suffix \in {SubSeq(designSystem.name, Len("Design System ") + 1,
                              Len(designSystem.name))} :
        \E p \in {ParseHsl(Get(Get(designSystem.colors, "primary"), "500")).h} :
           /\ DOMAIN designSystem =
                 {"name", "colors", "typography", "spacing", "borderRadius", "fontFamily"}
           /\ StartsWith(designSystem.name, "Design System ")
           /\ NatOf(suffix) \in 0..(NameRange - 1)
           /\ ToString(NatOf(suffix)) = suffix
           /\ Len(fontFamilies) = 10
           /\ designSystem.fontFamily \in Range(fontFamilies)
           /\ p \in 0..(HueRange - 1)
           /\ designSystem.colors = generateRandomPalette(p)
           /\ Len(designSystem.typography) = 9
           /\ designSystem.typography = defaultTypography
           /\ designSystem.spacing =
                 <<"4px", "8px", "12px", "16px", "20px", "24px", "32px", "40px", "48px", "64px">>
           /\ designSystem.borderRadius = <<"0px", "4px", "8px", "12px", "16px", "24px">>

\* a generated system with the largest suffix, the last font and a hue whose
\* secondary wraps
C19_Witness ==
    /\ pc = "done"
    /\ designSystem.name = "Design System 999"
    /\ designSystem.fontFamily = "Merriweather, serif"
    /\ designSystem.colors = generateRandomPalette(200)
    /\ Get(Get(designSystem.colors, "secondary"), "500") = "hsl(20, 60%, 50%)"

----------------------------------------------------------------------------
(* SpecCopy: the three copy handlers and the clipboard write they start.
   pc is the state of the promise of the last navigator.clipboard.writeText
   call, args the text it was passed, result the notification last shown. *)

Toast(kind, message) == [kind |-> kind, message |-> message]

\* the values DesignSystemGenerator offers to copy: every shade value, one
\* declaration text per typography size, every spacing and radius value
CopyableValues(ds) ==
    {ds.colors[r].v[i].v : r \in 1..Len(ds.colors), i \in 1..10}
    \cup {"font-size: " \o Get(ds.typography[t].v, "size")
             \o "; line-height: " \o Get(ds.typography[t].v, "lineHeight")
             \o "; font-weight: " \o Get(ds.typography[t].v, "weight") \o ";"
          : t \in 1..Len(ds.typography)}
    \cup Range(ds.spacing)
    \cup Range(ds.borderRadius)

RECURSIVE JoinRange(_, _, _)
JoinRange(lines, lo, hi) ==
    IF lo > hi THEN ""
    ELSE IF lo = hi THEN lines[lo]
    ELSE LET mid == (lo + hi) \div 2
         IN JoinRange(lines, lo, mid) \o "\n" \o JoinRange(lines, mid + 1, hi)

\* the one string whose lines an export text is
TextOf(lines) == JoinRange(lines, 1, Len(lines))

\* a catch handler reports a rejected write
afterSettle_catchReportsError(shown, outcome) ==
    IF outcome = "rejected" THEN Toast("error", "Failed to copy") ELSE shown

\* the promise of writeText is dropped: no then, no catch, no await
afterSettle(shown, outcome) == shown

InitCopy ==
    /\ pc = "idle"
    /\ args = ""
    /\ result = NoValue
    /\ designSystem \in {initialDesignSystem(0), randomDesignSystem(0, 1, HueRange - 1)}
    /\ exportFormat \in Range(formatIds)
    /\ content = formatContent(designSystem, exportFormat)
    /\ selectedComponent \in
          {initialSelectedComponent,
           updateProp(typeChange(initialSelectedComponent, "card"), "shadow", TRUE)}
    /\ generatedComponents \in {<< >>, << initialSelectedComponent >>}

CopyFrame ==
    UNCHANGED <<designSystem, exportFormat, content, selectedComponent, generatedComponents>>

\* DesignSystemGenerator.copyToClipboard(text)
CopyValue ==
    /\ \E text \in CopyableValues(designSystem) : args' = text
    /\ pc' = "pending"
    /\ result' = Toast("success", "Copied to clipboard!")
    /\ CopyFrame

\* ExportModal.copyToClipboard(format.content), on the tab that is shown
CopyExport ==
    /\ args' = TextOf(content)
    /\ pc' = "pending"
    /\ result' = Toast("success", "Copied to clipboard!")
    /\ CopyFrame

\* copyCode(component), for the configuration being edited or a generated one
CopyCode ==
    /\ \E component \in {selectedComponent} \cup Range(generatedComponents) :
          args' = generateComponentCode(component)
    /\ pc' = "pending"
    /\ result' = Toast("success", "Component code copied!")
    /\ CopyFrame

\* the environment settles the write: it succeeds or it is refused
SettleWrite ==
    /\ pc = "pending"
    /\ \E outcome \in {"fulfilled", "rejected"} :
          /\ pc' = outcome
          /\ result' = afterSettle(result, outcome)
    /\ UNCHANGED args
    /\ CopyFrame

NextCopy ==
    \/ CopyValue
    \/ CopyExport
    \/ CopyCode
    \/ SettleWrite

SpecCopy == InitCopy /\ [][NextCopy]_vars

\* C20: every copy operation reports success to the user whether or not the
\* clipboard write succeeds: after a copy, and after the write has
\* succeeded or failed, the notification shown is a success, and neither
\* step changes the DesignSystem, the selected ComponentConfig or the
\* generated-components list.
C20_CopyAlwaysReportsSuccess ==
    [][(pc' # pc \/ args' # args) =>
          /\ result'.kind = "success"
          /\ result'.message \in {"Copied to clipboard!", "Component code copied!"}
          /\ designSystem' = designSystem
          /\ selectedComponent' = selectedComponent
          /\ generatedComponents' = generatedComponents]_vars

\* the copy of a generated snippet whose clipboard write was refused
C20_Witness ==
    /\ pc = "rejected"
    /\ args = "<Button variant=\"primary\" size=\"md\" >\n  Click me\n</Button>"
    /\ result = Toast("success", "Component code copied!")
    /\ generatedComponents = << initialSelectedComponent >>

----------------------------------------------------------------------------
(* renderPreview: the element drawn for a configuration *)

buttonVariants ==
    << Entry("primary", "bg-primary text-primary-foreground hover:bg-primary/90"),
       Entry("secondary", "bg-secondary text-secondary-foreground hover:bg-secondary/90"),
       Entry("outline", "border border-border bg-background hover:bg-accent"),
       Entry("destructive", "bg-destructive text-destructive-foreground hover:bg-destructive/90") >>

buttonSizes ==
    << Entry("sm", "px-3 py-1.5 text-sm"),
       Entry("md", "px-4 py-2"),
       Entry("lg", "px-6 py-3 text-lg") >>

cardSizes ==
    << Entry("sm", "p-3"), Entry("md", "p-4"), Entry("lg", "p-6") >>

inputSizes ==
    << Entry("sm", "px-2 py-1 text-sm"),
       Entry("md", "px-3 py-2"),
       Entry("lg", "px-4 py-3 text-lg") >>

badgeVariants ==
    << Entry("default", "bg-primary text-primary-foreground"),
       Entry("secondary", "bg-secondary text-secondary-foreground"),
       Entry("destructive", "bg-destructive text-destructive-foreground"),
       Entry("outline", "border border-border text-foreground") >>

badgeSizes ==
    << Entry("sm", "px-2 py-0.5 text-xs"),
       Entry("md", "px-2.5 py-0.5 text-sm"),
       Entry("lg", "px-3 py-1") >>

alertVariants ==
    << Entry("default", "bg-accent text-accent-foreground border-border"),
       Entry("destructive", "bg-destructive/10 text-destructive border-destructive/20"),
       Entry("warning", "bg-yellow-50 text-yellow-800 border-yellow-200"),
       Entry("success", "bg-green-50 text-green-800 border-green-200") >>

baseClasses == "rounded-lg transition-all"

\* the style-table reads of one call, in the order of the template literal
previewStyles(component) ==
    CASE component.type = "button" ->
            << Get(buttonVariants, component.variant), Get(buttonSizes, component.size) >>
      [] component.type = "card" -> << Get(cardSizes, component.size) >>
      [] component.type = "input" -> << Get(inputSizes, component.size) >>
      [] component.type = "badge" ->
            << Get(badgeVariants, component.variant), Get(badgeSizes, component.size) >>
      [] component.type = "alert" -> << Get(alertVariants, component.variant) >>
      [] OTHER -> << >>

\* cond ? cls : ''
ClassIf(component, prop, cls) == IF Checked(component, prop) THEN cls ELSE ""

\* the element returned: its tag, its className and the text it shows
renderPreview(component) ==
    LET styles == previewStyles(component)
    IN CASE component.type = "button" ->
               [ tag |-> "button",
                 className |-> baseClasses \o " " \o styles[1] \o " " \o styles[2] \o " "
                                 \o ClassIf(component, "disabled", "opacity-50 cursor-not-allowed"),
                 text |-> IF Checked(component, "loading") THEN "Loading..." ELSE component.text ]
         [] component.type = "card" ->
               [ tag |-> "div",
                 className |-> baseClasses \o " border border-border bg-card " \o styles[1] \o " "
                                 \o ClassIf(component, "hover", "hover:shadow-md") \o " "
                                 \o ClassIf(component, "shadow", "shadow-sm"),
                 text |-> component.text ]
         [] component.type = "input" ->
               [ tag |-> "input",
                 className |-> baseClasses \o " border border-border bg-background " \o styles[1] \o " "
                                 \o ClassIf(component, "error", "border-destructive") \o " "
                                 \o ClassIf(component, "disabled", "opacity-50 cursor-not-allowed"),
                 text |-> component.text ]
         [] component.type = "badge" ->
               [ tag |-> "span",
                 className |-> "inline-flex items-center " \o baseClasses \o " " \o styles[1] \o " "
                                 \o styles[2] \o " " \o ClassIf(component, "rounded", "rounded-full"),
                 text |-> component.text ]
         [] component.type = "alert" ->
               [ tag |-> "div",
                 className |-> baseClasses \o " border p-4 " \o styles[1],
                 text |-> component.text ]
         [] OTHER -> [ tag |-> "null", className |-> "", text |-> "" ]

\* the configurations renderPreview is called with in one render
Previewed == {selectedComponent} \cup Range(generatedComponents)

\* C21: in every reachable state of the component builder, for the selected
\* configuration and every entry of the generated list, each variant and size
\* lookup of renderPreview finds an entry in its style table, so no preview
\* carries an undefined style.
C21_PreviewLookupsDefined ==
    \A component \in Previewed :
        /\ \A i \in 1..Len(previewStyles(component)) : Defined(previewStyles(component)[i])
        /\ renderPreview(component).tag # "null"
        /\ ~Contains(renderPreview(component).className, "undefined")

\* a generated large outline button next to a selected badge whose variant was
\* changed after the type switch
C21_Witness ==
    /\ Len(generatedComponents) = 1
    /\ renderPreview(generatedComponents[1]).className =
          "rounded-lg transition-all border border-border bg-background hover:bg-accent px-6 py-3 text-lg "
    /\ renderPreview(selectedComponent).className =
          "inline-flex items-center rounded-lg transition-all bg-destructive text-destructive-foreground px-2 py-0.5 text-xs "

----------------------------------------------------------------------------
(* The generated list over several generations, with the type select kept to
   the two smallest templates *)

MaxListed == 2

ListedTypes == << "badge", "alert" >>

InitListed ==
    /\ IdleHarness
    /\ IdleDesignSystem
    /\ selectedComponent \in {typeChange(initialSelectedComponent, ListedTypes[t]) :
                                 t \in 1..Len(ListedTypes)}
    /\ generatedComponents = << >>

ListedTypeChange == \E t \in 1..Len(ListedTypes) : TypeChangeTo(ListedTypes[t])

GenerateListed ==
    /\ Len(generatedComponents) < MaxListed
    /\ generatedComponents' = withGenerated(generatedComponents, selectedComponent)
    /\ UNCHANGED selectedComponent
    /\ BuilderFrame

NextListed ==
    \/ ListedTypeChange
    \/ VariantChange
    \/ SizeChange
    \/ TextChange
    \/ PropToggle
    \/ GenerateListed

SpecListed == InitListed /\ [][NextListed]_vars

\* C22: the generated list is append-only and its entries are snapshots: a
\* generation appends one entry equal to the selected configuration at the end
\* and leaves the selected configuration alone, every earlier entry keeps its
\* place and value in every step, and a step that changes the selected
\* configuration (type switch, variant or size select, text edit, property
\* toggle) leaves the whole list as it was.
C22_GeneratedAppendOnly ==
    [][\E n \in {Len(generatedComponents)} :
          /\ Len(generatedComponents') \in {n, n + 1}
          /\ SubSeq(generatedComponents', 1, n) = generatedComponents
          /\ Len(generatedComponents') = n + 1 =>
                /\ generatedComponents'[n + 1] = selectedComponent
                /\ selectedComponent' = selectedComponent
          /\ selectedComponent' # selectedComponent =>
                generatedComponents' = generatedComponents]_vars

\* two entries, the first generated as a rounded badge and the second as an
\* alert, while the selected configuration has since been switched back to a
\* badge and edited
C22_Witness ==
    /\ generatedComponents =
          << [ type |-> "badge", variant |-> "outline", size |-> "lg", text |-> "Save",
               props |-> << Entry("rounded", TRUE) >> ],
             [ type |-> "alert", variant |-> "default", size |-> "md",
               text |-> "This is an alert message", props |-> << >> ] >>
    /\ selectedComponent =
          [ type |-> "badge", variant |-> "secondary", size |-> "sm", text |-> "Badge",
            props |-> << Entry("rounded", FALSE) >> ]

----------------------------------------------------------------------------
(* The props of the selected configuration *)

\* C23: in every reachable state of the component builder the keys of the
\* selected configuration's props are props of the current type's template,
\* and every property name in the snippet generateComponentCode returns for
\* it is one of them.
C23_PropsOfCurrentType ==
    \E allowed \in {Range(componentTemplates[selectedComponent.type].props)} :
    \E list \in {PropList(selectedComponent, generateComponentCode(selectedComponent))} :
        /\ KeySet(selectedComponent.props) \subseteq allowed
        /\ list # "" => Range(SplitSpaces(list, 1)) \subseteq allowed

\* an input with both of its switches on, reached from a button whose loading
\* switch was on and was generated
C23_Witness ==
    /\ Len(generatedComponents) = 1
    /\ generatedComponents[1].type = "button"
    /\ Checked(generatedComponents[1], "loading")
    /\ selectedComponent.type = "input"
    /\ selectedComponent.props = << Entry("error", TRUE), Entry("disabled", TRUE) >>
    /\ PropList(selectedComponent, generateComponentCode(selectedComponent)) = "error disabled"

----------------------------------------------------------------------------
(* The design-system handlers with the first and the last font of the list
   drawn and selected *)

FontIdx == {0, Len(fontFamilies) - 1}

GenerateRandomSystemAnyFont ==
    /\ \E suffix \in DrawnSuffixes, fontIdx \in FontIdx, primaryHue \in DrawnHues :
          designSystem' = randomDesignSystem(suffix, fontIdx, primaryHue)
    /\ UNCHANGED <<pc, args, result, exportFormat, content,
                   selectedComponent, generatedComponents>>

FontSelectAny ==
    /\ \E i \in FontIdx : designSystem' = withFontFamily(designSystem, fontFamilies[i + 1])
    /\ UNCHANGED <<pc, args, result, exportFormat, content,
                   selectedComponent, generatedComponents>>

NextFonts ==
    \/ GenerateRandomSystemAnyFont
    \/ NameEdit
    \/ FontSelectAny
    \/ RoleShuffle
    \/ PaletteShuffle

SpecFonts == InitDesignSystem /\ [][NextFonts]_vars

\* C24: in every state reachable by generate-random-system, name edit, font
\* select, role-shuffle and palette-shuffle, fontFamily is one of the ten
\* strings of the font list.
C24_FontFamilyInList ==
    /\ designSystem.fontFamily \in
          { "Inter, sans-serif", "Roboto, sans-serif", "Open Sans, sans-serif",
            "Lato, sans-serif", "Poppins, sans-serif", "Montserrat, sans-serif",
            "Source Sans Pro, sans-serif", "Nunito, sans-serif",
            "Playfair Display, serif", "Merriweather, serif" }
    /\ \E i \in 1..Len(fontFamilies) : designSystem.fontFamily = fontFamilies[i]

\* the last font of the list, in a generated system whose name was then typed
\* over and whose primary role was shuffled
C24_Witness ==
    /\ designSystem.fontFamily = "Merriweather, serif"
    /\ designSystem.name = "Acme"
    /\ ParseHsl(Get(Get(designSystem.colors, "primary"), "500")).s = 70

----------------------------------------------------------------------------
(* The scales *)

\* C25: no operation changes the scales: in every state reachable by
\* generate-random-system, name edit, font select, role-shuffle and
\* palette-shuffle, typography is defaultTypography, spacing is the ten-entry
\* list 4px..64px and borderRadius is the six-entry list 0px..24px.
C25_ScalesNeverChange ==
    /\ designSystem.typography = defaultTypography
    /\ Len(designSystem.typography) = Len(SizeKeys)
    /\ designSystem.spacing =
          << "4px", "8px", "12px", "16px", "20px", "24px", "32px", "40px", "48px", "64px" >>
    /\ designSystem.borderRadius = << "0px", "4px", "8px", "12px", "16px", "24px" >>

\* a generated system after a name edit, a font select and a role shuffle
C25_Witness ==
    /\ designSystem.name = "Acme"
    /\ designSystem.fontFamily = "Roboto, sans-serif"
    /\ ParseHsl(Get(Get(designSystem.colors, "accent"), "500")).s = 70
    /\ ParseHsl(Get(Get(designSystem.colors, "primary"), "500")).h = HueRange - 1
    /\ Len(designSystem.spacing) = 10
    /\ Len(designSystem.borderRadius) = 6

----------------------------------------------------------------------------
(* The five exports of one DesignSystem, read side by side *)

\* the text of a format in the render of the current state: the one shown is
\* content, the other four are the contents of the same formats array
ExportText(format) ==
    IF format = exportFormat THEN content ELSE formatContent(designSystem, format)

\* the value of the one declaration "<prefix><value>;" of a text
DeclValue(lines, prefix) ==
    LET hits == LinesWith(lines, prefix)
    IN IF Len(hits) = 1 /\ EndsWith(hits[1], ";")
       THEN SubSeq(hits[1], Len(prefix) + 1, Len(hits[1]) - 1)
       ELSE "missing"

\* the string at a path of a parsed JSON text
StringAt(root, path) ==
    LET v == AtPath(root, path) IN IF v.t = "string" THEN v.s ELSE "missing"

\* the only element of the array at a path of a parsed JSON text
OnlyItemAt(root, path) ==
    LET v == AtPath(root, path)
    IN IF v.t = "array" /\ Len(v.e) = 1 /\ v.e[1].v.t = "string" THEN v.e[1].v.s ELSE "missing"

\* C26: the five exports of one DesignSystem agree: every color value (role,
\* step) is the same in the structured-variable, stylesheet, build-tool
\* config, preprocessor and design-token exports and is colors[role][step];
\* so are every typography size, lineHeight and weight, every spacing and
\* radius value, and the font family in every place an export writes it.
C26_ExportsAgree ==
    \E figma \in {ParseJson(ExportText("figma"))} :
    \E tailwind \in {ParseJson(ExportText("tailwind"))} :
    \E tokens \in {ParseJson(ExportText("tokens"))} :
    \E css \in {ExportText("css")} :
    \E scss \in {ExportText("scss")} :
        /\ \A r \in 1..Len(designSystem.colors) :
           \A i \in 1..Len(designSystem.colors[r].v) :
              LET role == designSystem.colors[r].k
                  step == designSystem.colors[r].v[i].k
              IN { StringAt(figma, << "color/" \o role \o "/" \o step >>),
                   DeclValue(css, "  --" \o role \o "-" \o step \o ": "),
                   StringAt(tailwind, << "theme", "extend", "colors", role, step >>),
                   DeclValue(scss, "$" \o role \o "-" \o step \o ": "),
                   StringAt(tokens, << "global", "colors", role, step, "value" >>) }
                 = { designSystem.colors[r].v[i].v }
        /\ \A t \in 1..Len(designSystem.typography) :
              LET size  == designSystem.typography[t].k
                  props == designSystem.typography[t].v
              IN /\ { StringAt(figma, << "typography/" \o size \o "/size" >>),
                      DeclValue(css, "  --text-" \o size \o ": "),
                      StringAt(tailwind, << "theme", "extend", "fontSize", size, "size" >>),
                      DeclValue(scss, "$font-size-" \o size \o ": "),
                      StringAt(tokens, << "global", "typography", size, "value", "fontSize" >>) }
                    = { Get(props, "size") }
                 /\ { StringAt(figma, << "typography/" \o size \o "/lineHeight" >>),
                      DeclValue(css, "  --leading-" \o size \o ": "),
                      StringAt(tailwind, << "theme", "extend", "fontSize", size, "lineHeight" >>),
                      DeclValue(scss, "$line-height-" \o size \o ": "),
                      StringAt(tokens, << "global", "typography", size, "value", "lineHeight" >>) }
                    = { Get(props, "lineHeight") }
                 /\ { StringAt(figma, << "typography/" \o size \o "/weight" >>),
                      DeclValue(css, "  --weight-" \o size \o ": "),
                      StringAt(tailwind, << "theme", "extend", "fontSize", size, "weight" >>),
                      DeclValue(scss, "$font-weight-" \o size \o ": "),
                      StringAt(tokens, << "global", "typography", size, "value", "fontWeight" >>) }
                    = { Get(props, "weight") }
                 /\ StringAt(tokens, << "global", "typography", size, "value", "fontFamily" >>)
                       = designSystem.fontFamily
        /\ \A i \in 1..Len(designSystem.spacing) :
              { StringAt(figma, << "spacing/" \o SpacingKey(i) >>),
                DeclValue(css, "  --spacing-" \o SpacingKey(i) \o ": "),
                StringAt(tailwind, << "theme", "extend", "spacing", SpacingKey(i) >>),
                DeclValue(scss, "$spacing-" \o SpacingKey(i) \o ": "),
                StringAt(tokens, << "global", "spacing", SpacingKey(i), "value" >>) }
              = { designSystem.spacing[i] }
        /\ \A i \in 1..Len(designSystem.borderRadius) :
              { StringAt(figma, << "radius/" \o RadiusKey(i) >>),
                DeclValue(css, "  --radius-" \o RadiusKey(i) \o ": "),
                StringAt(tailwind, << "theme", "extend", "borderRadius", RadiusKey(i) >>),
                DeclValue(scss, "$border-radius-" \o RadiusKey(i) \o ": "),
                StringAt(tokens, << "global", "borderRadius", RadiusKey(i), "value" >>) }
              = { designSystem.borderRadius[i] }
        /\ { StringAt(figma, << "font/family" >>),
             DeclValue(css, "  --font-family: "),
             OnlyItemAt(tailwind, << "theme", "extend", "fontFamily", "sans" >>),
             DeclValue(scss, "$font-family-base: ") }
           = { designSystem.fontFamily }

\* the preprocessor export shown for a system whose accent role was shuffled
\* and whose font is the second of the list, next to the stylesheet of the
\* same render
C26_Witness ==
    /\ exportFormat = "scss"
    /\ designSystem.fontFamily = "Roboto, sans-serif"
    /\ DeclValue(content, "$accent-500: ") = "hsl(359, 70%, 50%)"
    /\ DeclValue(ExportText("css"), "  --accent-500: ") = "hsl(359, 70%, 50%)"
    /\ DeclValue(content, "$line-height-5xl: ") = "1"

====
